---- MODULE Spec2Model ----
(***************************************************************************)
(* Isolines (contour map creator): a model of the contour pipeline of      *)
(* src/app.js, src/visvalingam.js and src/conrec.js.                        *)
(*                                                                         *)
(* Coordinates and elevations are integers.  Every division the modelled   *)
(* code performs (edge interpolation, midpoints) is exact on the inputs    *)
(* the model draws, so integer arithmetic computes what the IEEE doubles   *)
(* of the JavaScript compute on the same inputs.  Effective areas are      *)
(* kept doubled (the code halves a cross product) and thresholds are       *)
(* fractions <<num, den>>, so comparisons are done without division.       *)
(***************************************************************************)
EXTENDS Integers, Sequences, FiniteSets, TLC

\* a function applied to drawn inputs (specifications SpecSimplify,
\* SpecStitch, SpecLevels): the function, its arguments, its result
VARIABLES call, args, ret

\* the fields of ContourMapApp (src/app.js:6-31)
VARIABLES selectedBounds, isSelecting, samples, refinementPoints,
          originalContours, currentContours, simplificationPointRanking

\* the objects the fields refer to: the sample points by identity <<run that
\* created it, number within the run>> and the contour maps by reference
VARIABLES sampleObjs, contourObjs

\* the page: simplify slider, contour-interval input, lock button, status
\* line and the last alert
VARIABLES sliderValue, sliderMax, contourInterval, lockBtnDisabled, status, alertMsg

\* the lockPointsAndFetchElevations call in flight: where it is suspended and
\* its local variables
VARIABLES pc, run

\* history: number of runs started, the samples of the runs an oracle
\* failure aborted, the input of the contour generation that produced
\* originalContours (sample identities, valid points, interval), and the
\* number of runs started before the most recent clearContours
VARIABLES runs, abortedSamples, generatedFrom, runsAtClear

pureVars == <<call, args, ret>>

appVars == <<selectedBounds, isSelecting, samples, refinementPoints,
             originalContours, currentContours, simplificationPointRanking,
             sampleObjs, contourObjs, sliderValue, sliderMax,
             contourInterval, lockBtnDisabled, status, alertMsg, pc, run,
             runs, abortedSamples, generatedFrom, runsAtClear>>

vars == <<pureVars, appVars>>

\* JavaScript null for a reference to a contour map, and the two contour
\* map objects that can be alive at a time
NullRef == "null"

ContourRefs == {"o1", "o2"}

\* JavaScript null for a value that is otherwise a record or a sequence
Null == <<>>

(***************************************************************************)
(* Bounds of the model.                                                    *)
(***************************************************************************)
MaxLen == 5
GridX == 2
GridY == 2
StitchGrid == 1
MaxSegs == 3
ElevBound == 50
MaxSpan == 40
MaxInterval == 10
MaxRuns == 1
MaxRemove == 2

(***************************************************************************)
(* Generic helpers.                                                        *)
(***************************************************************************)
Abs(v) == IF v < 0 THEN -v ELSE v

Min2(a, b) == IF a <= b THEN a ELSE b

Max2(a, b) == IF a >= b THEN a ELSE b

Pt(px, py) == [x |-> px, y |-> py]

RECURSIVE SeqSum(_)
SeqSum(s) == IF s = <<>> THEN 0 ELSE Head(s) + SeqSum(Tail(s))

RECURSIVE FlattenSeq(_)
FlattenSeq(ss) == IF ss = <<>> THEN <<>> ELSE Head(ss) \o FlattenSeq(Tail(ss))

FilterIdx(s, Keep(_)) ==
    LET RECURSIVE F(_)
        F(i) == IF i > Len(s) THEN <<>>
                ELSE IF Keep(i) THEN <<s[i]>> \o F(i + 1) ELSE F(i + 1)
    IN F(1)

(***************************************************************************)
(* Visvalingam (src/visvalingam.js) and the copies of its geometry in      *)
(* ContourMapApp (src/app.js).  Sequences are 1-based: index i of the      *)
(* model is index i-1 of the JavaScript array.                             *)
(***************************************************************************)

\* twice Visvalingam.triangleArea
triangleArea2(p1, p2, p3) ==
    Abs((p2.x - p1.x) * (p3.y - p1.y) - (p3.x - p1.x) * (p2.y - p1.y))

direction(p1, p2, p3) ==
    (p3.x - p1.x) * (p2.y - p1.y) - (p2.x - p1.x) * (p3.y - p1.y)

onSegment(p1, p2, p3) ==
    /\ p2.x >= Min2(p1.x, p3.x) /\ p2.x <= Max2(p1.x, p3.x)
    /\ p2.y >= Min2(p1.y, p3.y) /\ p2.y <= Max2(p1.y, p3.y)

segmentsIntersect(s1p1, s1p2, s2p1, s2p2) ==
    LET p1 == s1p1
        p2 == s1p2
        p3 == s2p1
        p4 == s2p2
        d1 == direction(p3, p4, p1)
        d2 == direction(p3, p4, p2)
        d3 == direction(p1, p2, p3)
        d4 == direction(p1, p2, p4)
    IN \/ /\ ((d1 > 0 /\ d2 < 0) \/ (d1 < 0 /\ d2 > 0))
          /\ ((d3 > 0 /\ d4 < 0) \/ (d3 < 0 /\ d4 > 0))
       \/ (d1 = 0 /\ onSegment(p3, p1, p4))
       \/ (d2 = 0 /\ onSegment(p3, p2, p4))
       \/ (d3 = 0 /\ onSegment(p1, p3, p2))
       \/ (d4 = 0 /\ onSegment(p1, p4, p2))

\* nearest kept index below r (0 when there is none: JavaScript index -1)
PrevKept(keep, r) ==
    LET S == {i \in 1..(r - 1) : keep[i]}
    IN IF S = {} THEN 0 ELSE CHOOSE i \in S : \A k \in S : k <= i

\* nearest kept index above r (Len+1 when there is none)
NextKept(keep, r) ==
    LET S == {i \in (r + 1)..Len(keep) : keep[i]}
    IN IF S = {} THEN Len(keep) + 1 ELSE CHOOSE i \in S : \A k \in S : k >= i

NeverIntersects(points, keep, removeIndex) == FALSE

wouldCreateIntersection(points, keep, removeIndex) ==
    LET n == Len(points)
        prevIndex == PrevKept(keep, removeIndex)
        nextIndex == NextKept(keep, removeIndex)
    IN IF prevIndex < 1 \/ nextIndex > n THEN FALSE
       ELSE \E i \in 1..(n - 1) :
              /\ keep[i]
              /\ LET j == NextKept(keep, i)
                 IN /\ j <= n
                    /\ ~(i = prevIndex \/ j = nextIndex
                         \/ i = removeIndex \/ j = removeIndex)
                    /\ segmentsIntersect(points[prevIndex], points[nextIndex],
                                         points[i], points[j])

\* calculateEffectiveAreas, doubled; the endpoints' Infinity is not stored
calculateEffectiveAreas(points) ==
    [i \in 2..(Len(points) - 1) |->
        triangleArea2(points[i - 1], points[i], points[i + 1])]

\* Array.prototype.sort with a comparator Key(a) - Key(b): stable, ascending
SortAscending(items, Key(_)) ==
    LET RECURSIVE S(_)
        S(rest) ==
          IF rest = <<>> THEN <<>>
          ELSE LET m == CHOOSE i \in 1..Len(rest) :
                          /\ \A k \in 1..Len(rest) : Key(rest[i]) <= Key(rest[k])
                          /\ \A k \in 1..(i - 1) : Key(rest[k]) > Key(rest[i])
               IN <<rest[m]>> \o
                  S(SubSeq(rest, 1, m - 1) \o SubSeq(rest, m + 1, Len(rest)))
    IN S(items)

\* sort((a, b) => a.area - b.area)
SortByArea(items) == SortAscending(items, LAMBDA it : it.area)

\* the loop's exit test "point.area >= minArea", minArea = threshold * maxArea,
\* with threshold = th[1] / th[2] and doubled areas
StopsBelow(area2, th, maxArea2) == area2 * th[2] > th[1] * maxArea2

AreaReachesMin(area2, th, maxArea2) == area2 * th[2] >= th[1] * maxArea2

\* Visvalingam.simplify(points, threshold)
simplify(points, th) ==
    IF Len(points) <= 2 THEN points
    ELSE
      LET effectiveAreas == calculateEffectiveAreas(points)
          maxArea2 == CHOOSE a \in {effectiveAreas[i] : i \in DOMAIN effectiveAreas} :
                         \A i \in DOMAIN effectiveAreas : effectiveAreas[i] <= a
          heap == SortByArea([k \in 1..(Len(points) - 2) |->
                                 [index |-> k + 1, area |-> effectiveAreas[k + 1]]])
          RECURSIVE Mark(_, _)
          Mark(i, keep) ==
              IF i > Len(heap) THEN keep
              ELSE IF AreaReachesMin(heap[i].area, th, maxArea2) THEN keep
              ELSE IF ~wouldCreateIntersection(points, keep, heap[i].index)
                   THEN Mark(i + 1, [keep EXCEPT ![heap[i].index] = FALSE])
                   ELSE Mark(i + 1, keep)
          keepFinal == Mark(1, [i \in 1..Len(points) |-> TRUE])
      IN FilterIdx(points, LAMBDA i : keepFinal[i])

\* Visvalingam.simplifyLines
simplifyLines(lines, th) == [i \in 1..Len(lines) |-> simplify(lines[i], th)]

(***************************************************************************)
(* Contour maps.  A JavaScript object keyed by level is a sequence of      *)
(* entries [level, lines] in the object's for-in order.                    *)
(***************************************************************************)
LinesAt(c, level) == c[CHOOSE i \in 1..Len(c) : c[i].level = level].lines

TotalPoints(c) ==
    SeqSum([i \in 1..Len(c) |->
              SeqSum([k \in 1..Len(c[i].lines) |-> Len(c[i].lines[k])])])

\* JSON.parse(JSON.stringify(contours)): every number of the model is finite,
\* so stringify writes it and parse reads the same number back; keys keep
\* their order; the copy shares no object with its source.
JsonCopy(c) ==
    [i \in 1..Len(c) |->
        [level |-> c[i].level,
         lines |-> [k \in 1..Len(c[i].lines) |->
                      [q \in 1..Len(c[i].lines[k]) |->
                          Pt(c[i].lines[k][q].x, c[i].lines[k][q].y)]]]]

\* removal candidates of a line without its last interior point
CandidatesButLast(level, lineIndex, line) ==
    IF Len(line) <= 3 THEN <<>>
    ELSE [k \in 1..(Len(line) - 3) |->
            [level |-> level, lineIndex |-> lineIndex, pointIndex |-> k + 1,
             area |-> triangleArea2(line[k], line[k + 1], line[k + 2]),
             point |-> line[k + 1]]]

\* ContourMapApp.calculateSimplificationRanking: list of removal candidates
LineCandidates(level, lineIndex, line) ==
    IF Len(line) <= 2 THEN <<>>
    ELSE [k \in 1..(Len(line) - 2) |->
            [level |-> level, lineIndex |-> lineIndex, pointIndex |-> k + 1,
             area |-> triangleArea2(line[k], line[k + 1], line[k + 2]),
             point |-> line[k + 1]]]

calculateSimplificationRanking(orig) ==
    SortByArea(FlattenSeq([i \in 1..Len(orig) |->
        FlattenSeq([k \in 1..Len(orig[i].lines) |->
            LineCandidates(orig[i].level, k, orig[i].lines[k])])]))

\* ContourMapApp.wouldCreateIntersection is a copy of the Visvalingam one
appWouldCreateIntersection(points, keep, removeIndex) ==
    wouldCreateIntersection(points, keep, removeIndex)

\* first loop of applySimplificationByCount: the removalMap after the first
\* removeCount ranked entries; removalMap maps <<level, lineIndex>> to keep
BuildRemovalMap(cur, pointsToRemove) ==
    LET RECURSIVE B(_, _)
        B(i, removalMap) ==
          IF i > Len(pointsToRemove) THEN removalMap
          ELSE
            LET removal == pointsToRemove[i]
                key == <<removal.level, removal.lineIndex>>
                line == LinesAt(cur, removal.level)[removal.lineIndex]
                m1 == IF key \in DOMAIN removalMap THEN removalMap
                      ELSE [k \in DOMAIN removalMap \cup {key} |->
                              IF k = key THEN [q \in 1..Len(line) |-> TRUE]
                              ELSE removalMap[k]]
                keep == m1[key]
            IN IF ~appWouldCreateIntersection(line, keep, removal.pointIndex)
               THEN B(i + 1, [m1 EXCEPT ![key] =
                                 [keep EXCEPT ![removal.pointIndex] = FALSE]])
               ELSE B(i + 1, m1)
    IN B(1, [k \in {} |-> <<>>])

DropPoint(keep, idx) == ~keep[idx]

\* line.filter((point, idx) => lineData.keep[idx])
KeepPoint(keep, idx) == keep[idx]

\* second loop: filter every touched line, drop it below 2 points
ApplyRemovals(cur, removalMap) ==
    [i \in 1..Len(cur) |->
       [level |-> cur[i].level,
        lines |->
          FlattenSeq([k \in 1..Len(cur[i].lines) |->
             LET line == cur[i].lines[k]
                 key == <<cur[i].level, k>>
             IN IF key \notin DOMAIN removalMap THEN <<line>>
                ELSE LET newLine == FilterIdx(line,
                                      LAMBDA idx : KeepPoint(removalMap[key], idx))
                     IN IF Len(newLine) >= 2 THEN <<newLine>> ELSE <<>>])]]

\* the last removeCount entries of the ranking, largest areas
RankingTail(ranking, removeCount) ==
    SubSeq(ranking, Len(ranking) - Min2(removeCount, Len(ranking)) + 1, Len(ranking))

\* simplificationPointRanking.slice(0, removeCount)
RankingSlice(ranking, removeCount) ==
    SubSeq(ranking, 1, Min2(removeCount, Len(ranking)))

\* the value applySimplificationByCount(removeCount) leaves in the object it
\* parsed from the JSON copy of orig
simplifiedByCount(orig, ranking, removeCount) ==
    LET copy == JsonCopy(orig)
    IN IF removeCount = 0 THEN copy
       ELSE ApplyRemovals(copy, BuildRemovalMap(copy, RankingSlice(ranking, removeCount)))

(***************************************************************************)
(* The state the constructor leaves (src/app.js:6-31), with no call of     *)
(* lockPointsAndFetchElevations in flight.  The value of the               *)
(* contour-interval input is set by each specification.                    *)
(***************************************************************************)
Constructed ==
    /\ selectedBounds = Null
    /\ isSelecting = FALSE
    /\ samples = <<>>
    /\ refinementPoints = <<>>
    /\ originalContours = NullRef
    /\ currentContours = NullRef
    /\ simplificationPointRanking = <<>>
    /\ sampleObjs = [id \in {} |-> Null]
    /\ contourObjs = [o \in ContourRefs |-> Null]
    /\ sliderValue = 0
    /\ sliderMax = 0
    /\ lockBtnDisabled = FALSE
    /\ status = ""
    /\ alertMsg = ""
    /\ pc = "idle"
    /\ run = Null
    /\ runs = 0
    /\ abortedSamples = {}
    /\ generatedFrom = Null
    /\ runsAtClear = 0

(***************************************************************************)
(* Simplification as a function: the specification SpecSimplify draws a    *)
(* polyline and applies Visvalingam.simplify or the count-based            *)
(* simplification of ContourMapApp to it.                                  *)
(***************************************************************************)
GridPoints == {Pt(px, py) : px \in 0..GridX, py \in 0..GridY}

\* polylines of 2..MaxLen grid points that visit no point twice, except
\* that a closed polyline ends on its first point
Polylines ==
    {s \in UNION {[1..n -> GridPoints] : n \in 2..MaxLen} :
        \A i \in 1..Len(s) : \A j \in (i + 1)..Len(s) :
            s[i] = s[j] => (i = 1 /\ j = Len(s))}

\* thresholds as fractions <<num, den>>: 0, 1/2, 1 and 2
Thresholds == {<<0, 1>>, <<1, 2>>, <<1, 1>>, <<2, 1>>}

\* the contour map holding one polyline at one level
OneLineMap(line) == <<[level |-> 0, lines |-> <<line>>]>>

InitSimplify ==
    /\ Constructed
    /\ contourInterval = Null
    /\ call = "none"
    /\ \E line \in Polylines : args = [points |-> line]
    /\ ret = Null

SimplifyCall ==
    /\ call = "none"
    /\ \E th \in Thresholds :
         /\ args' = [points |-> args.points, threshold |-> th]
         /\ ret' = simplify(args.points, th)
    /\ call' = "simplify"
    /\ UNCHANGED appVars

ByCountCall ==
    /\ call = "none"
    /\ LET orig == OneLineMap(args.points)
           ranking == calculateSimplificationRanking(orig)
       IN \E removeCount \in 0..Len(ranking) :
            /\ args' = [points |-> args.points, removeCount |-> removeCount]
            /\ ret' = simplifiedByCount(orig, ranking, removeCount)
    /\ call' = "byCount"
    /\ UNCHANGED appVars

\* the guard on its own: every point kept, or one other interior point
\* already removed
GuardCall ==
    /\ call = "none"
    /\ \E removeIndex \in 2..(Len(args.points) - 1),
          removed \in 1..(Len(args.points) - 1) :
          LET keep == [i \in 1..Len(args.points) |-> i = 1 \/ i # removed]
          IN /\ keep[removeIndex]
             /\ args' = [points |-> args.points, keep |-> keep,
                         removeIndex |-> removeIndex]
             /\ ret' = <<wouldCreateIntersection(args.points, keep, removeIndex)>>
    /\ call' = "wouldCreateIntersection"
    /\ UNCHANGED appVars

NextSimplify == SimplifyCall \/ ByCountCall \/ GuardCall

SpecSimplify == InitSimplify /\ [][NextSimplify]_vars

\* the polylines a finished call returned
ResultLines ==
    IF call = "simplify" THEN <<ret>>
    ELSE IF call = "byCount" THEN ret[1].lines
    ELSE <<>>

\* two closed segments have a point in common
SegmentsCross(a, b, c, d) ==
    LET Side(p, q, r) == (q.x - p.x) * (r.y - p.y) - (q.y - p.y) * (r.x - p.x)
        Within(p, q, r) == /\ Side(p, q, r) = 0
                           /\ Min2(p.x, q.x) <= r.x /\ r.x <= Max2(p.x, q.x)
                           /\ Min2(p.y, q.y) <= r.y /\ r.y <= Max2(p.y, q.y)
    IN \/ /\ Side(a, b, c) * Side(a, b, d) < 0
          /\ Side(c, d, a) * Side(c, d, b) < 0
       \/ Within(a, b, c) \/ Within(a, b, d)
       \/ Within(c, d, a) \/ Within(c, d, b)

NoSelfIntersection(line) ==
    \A i \in 1..(Len(line) - 1) : \A j \in (i + 2)..(Len(line) - 1) :
        ~SegmentsCross(line[i], line[i + 1], line[j], line[j + 1])

\* C1: a simplification of a polyline whose non-adjacent segments do not
\* cross returns polylines whose non-adjacent segments do not cross, for
\* every threshold of Visvalingam.simplify and every removal count.
C1_NoNewIntersection ==
    (call \in {"simplify", "byCount"} /\ NoSelfIntersection(args.points))
        => \A k \in 1..Len(ResultLines) : NoSelfIntersection(ResultLines[k])

\* C1 witness: a crossing-free polyline of 3 points lost its interior point
C1_Witness ==
    /\ call \in {"simplify", "byCount"}
    /\ NoSelfIntersection(args.points)
    /\ Len(args.points) = 3
    /\ Len(ResultLines) = 1
    /\ Len(ResultLines[1]) = 2

\* C3 as claimed: with threshold 1 simplify returns exactly the first and
\* the last point of any polyline of at least 2 points.
C3_OnlyEndpoints ==
    (call = "simplify" /\ args.threshold = <<1, 1>>)
        => ret = <<args.points[1], args.points[Len(args.points)]>>

\* C4: with threshold 0 simplify returns its input, and the count-based
\* simplification with removeCount 0 returns a map equal to the original.
C4_ZeroIsIdentity ==
    /\ (call = "simplify" /\ args.threshold = <<0, 1>>) => ret = args.points
    /\ (call = "byCount" /\ args.removeCount = 0) => ret = OneLineMap(args.points)

\* C4 witness: both zero simplifications of a polyline with interior points
C4_WitnessSimplify ==
    /\ call = "simplify" /\ args.threshold = <<0, 1>>
    /\ Len(args.points) >= 3 /\ ret = args.points

(***************************************************************************)
(* Segment stitching: ContourMapApp.connectContourSegments (src/app.js)    *)
(* and Conrec.connectSegments (src/conrec.js).  A segment is a record      *)
(* [start, end] of points (Conrec stores the same four numbers as x1, y1,  *)
(* x2, y2).  Coordinates are in units of 1/CoordScale, a tolerance is      *)
(* 1/ToleranceInv.                                                         *)
(***************************************************************************)
CoordScale == 4
AppToleranceInv == 100000000
ConrecToleranceInv == 10000

\* |d| / CoordScale < 1 / toleranceInv, that is |d| * toleranceInv < CoordScale,
\* written for integers without the large product
WithinTolerance(d, toleranceInv) == Abs(d) <= (CoordScale - 1) \div toleranceInv

NeverEqual(p1, p2, toleranceInv) == FALSE

\* Math.abs(p1.x - p2.x) < tolerance && Math.abs(p1.y - p2.y) < tolerance
pointsEqual(p1, p2, toleranceInv) ==
    /\ WithinTolerance(p1.x - p2.x, toleranceInv)
    /\ WithinTolerance(p1.y - p2.y, toleranceInv)

FirstIn(S) == CHOOSE j \in S : \A k \in S : j <= k

RECURSIVE appExtendEndOnly(_, _, _)
appExtendEndOnly(segments, currentLine, used) ==
    LET lastPoint == currentLine[Len(currentLine)]
        atEnd == {j \in 1..Len(segments) :
                    /\ j \notin used
                    /\ \/ pointsEqual(lastPoint, segments[j].start, AppToleranceInv)
                       \/ pointsEqual(lastPoint, segments[j].end, AppToleranceInv)}
    IN IF atEnd = {} THEN <<currentLine, used>>
       ELSE LET j == FirstIn(atEnd)
            IN appExtendEndOnly(segments,
                 IF pointsEqual(lastPoint, segments[j].start, AppToleranceInv)
                 THEN Append(currentLine, segments[j].end)
                 ELSE Append(currentLine, segments[j].start),
                 used \cup {j})

\* the while (extended) loop of connectContourSegments for one polyline:
\* a full scan for a segment at the end, and only when none matched a full
\* scan for one at the start; returns <<line, used>>
RECURSIVE appExtend(_, _, _)
appExtend(segments, currentLine, used) ==
    LET unusedJ == {j \in 1..Len(segments) : j \notin used}
        lastPoint == currentLine[Len(currentLine)]
        firstPoint == currentLine[1]
        atEnd == {j \in unusedJ :
                    \/ pointsEqual(lastPoint, segments[j].start, AppToleranceInv)
                    \/ pointsEqual(lastPoint, segments[j].end, AppToleranceInv)}
        atStart == {j \in unusedJ :
                    \/ pointsEqual(firstPoint, segments[j].end, AppToleranceInv)
                    \/ pointsEqual(firstPoint, segments[j].start, AppToleranceInv)}
    IN IF atEnd # {}
       THEN LET j == FirstIn(atEnd)
            IN appExtend(segments,
                 IF pointsEqual(lastPoint, segments[j].start, AppToleranceInv)
                 THEN Append(currentLine, segments[j].end)
                 ELSE Append(currentLine, segments[j].start),
                 used \cup {j})
       ELSE IF atStart # {}
       THEN LET j == FirstIn(atStart)
            IN appExtend(segments,
                 IF pointsEqual(firstPoint, segments[j].end, AppToleranceInv)
                 THEN <<segments[j].start>> \o currentLine
                 ELSE <<segments[j].end>> \o currentLine,
                 used \cup {j})
       ELSE <<currentLine, used>>

FirstSegmentOnly(segments) ==
    IF segments = <<>> THEN <<>> ELSE <<<<segments[1].start, segments[1].end>>>>

connectContourSegments(segments) ==
    LET RECURSIVE Outer(_, _, _)
        Outer(i, used, lines) ==
          IF i > Len(segments) THEN lines
          ELSE IF i \in used THEN Outer(i + 1, used, lines)
          ELSE LET r == appExtend(segments,
                                  <<segments[i].start, segments[i].end>>,
                                  used \cup {i})
               IN Outer(i + 1, r[2], Append(lines, r[1]))
    IN Outer(1, {}, <<>>)

\* the while (extended) loop of Conrec.connectSegments: one scan in which
\* each unused segment is tried at the end and then at the start
RECURSIVE conrecExtend(_, _, _)
conrecExtend(segments, line, used) ==
    LET start == line[1]
        end == line[Len(line)]
        hits == {j \in 1..Len(segments) :
                   /\ j \notin used
                   /\ \/ pointsEqual(end, segments[j].start, ConrecToleranceInv)
                      \/ pointsEqual(end, segments[j].end, ConrecToleranceInv)
                      \/ pointsEqual(start, segments[j].end, ConrecToleranceInv)
                      \/ pointsEqual(start, segments[j].start, ConrecToleranceInv)}
    IN IF hits = {} THEN <<line, used>>
       ELSE LET j == FirstIn(hits)
                seg == segments[j]
            IN conrecExtend(segments,
                 IF pointsEqual(end, seg.start, ConrecToleranceInv)
                 THEN Append(line, seg.end)
                 ELSE IF pointsEqual(end, seg.end, ConrecToleranceInv)
                 THEN Append(line, seg.start)
                 ELSE IF pointsEqual(start, seg.end, ConrecToleranceInv)
                 THEN <<seg.start>> \o line
                 ELSE <<seg.end>> \o line,
                 used \cup {j})

connectSegments(segments) ==
    LET RECURSIVE Outer(_, _, _)
        Outer(i, used, lines) ==
          IF i > Len(segments) THEN lines
          ELSE IF i \in used THEN Outer(i + 1, used, lines)
          ELSE LET r == conrecExtend(segments,
                                     <<segments[i].start, segments[i].end>>,
                                     used \cup {i})
               IN Outer(i + 1, r[2], Append(lines, r[1]))
    IN Outer(1, {}, <<>>)

(***************************************************************************)
(* Stitching as a function: SpecStitch draws a list of segments and        *)
(* stitches it and one of its permutations with either stitcher.           *)
(***************************************************************************)
StitchPoints == {Pt(px, py) : px \in 0..StitchGrid, py \in 0..StitchGrid}

StitchSegments == {[start |-> a, end |-> b] : a \in StitchPoints, b \in StitchPoints}

SegCode(seg) ==
    ((seg.start.x * (StitchGrid + 1) + seg.start.y) * (StitchGrid + 1)
        + seg.end.x) * (StitchGrid + 1) + seg.end.y

\* one list per multiset of segments; the permutations are drawn by the calls
SegmentLists ==
    {s \in UNION {[1..n -> StitchSegments] : n \in 1..MaxSegs} :
        \A i \in 1..(Len(s) - 1) : SegCode(s[i]) <= SegCode(s[i + 1])}

IndexPerms(n) == {f \in [1..n -> 1..n] : \A i, j \in 1..n : f[i] = f[j] => i = j}

Permute(s, f) == [i \in 1..Len(s) |-> s[f[i]]]

InitStitch ==
    /\ Constructed
    /\ contourInterval = Null
    /\ call = "none"
    /\ \E s \in SegmentLists : args = [segments |-> s]
    /\ ret = Null

AppStitchCall ==
    /\ call = "none"
    /\ \E f \in IndexPerms(Len(args.segments)) :
         /\ args' = [segments |-> args.segments,
                     permuted |-> Permute(args.segments, f)]
         /\ ret' = [lines |-> connectContourSegments(args.segments),
                    permutedLines |-> connectContourSegments(Permute(args.segments, f))]
    /\ call' = "connectContourSegments"
    /\ UNCHANGED appVars

ConrecStitchCall ==
    /\ call = "none"
    /\ \E f \in IndexPerms(Len(args.segments)) :
         /\ args' = [segments |-> args.segments,
                     permuted |-> Permute(args.segments, f)]
         /\ ret' = [lines |-> connectSegments(args.segments),
                    permutedLines |-> connectSegments(Permute(args.segments, f))]
    /\ call' = "connectSegments"
    /\ UNCHANGED appVars

NextStitch == AppStitchCall \/ ConrecStitchCall

SpecStitch == InitStitch /\ [][NextStitch]_vars

Reverse(s) == [i \in 1..Len(s) |-> s[Len(s) + 1 - i]]

IsClosed(line) == line[1] = line[Len(line)]

\* the rotations of a closed polyline: start the same cycle at another vertex
Rotations(line) ==
    LET n == Len(line) - 1
    IN {[i \in 1..(n + 1) |-> line[((i - 1 + k) % n) + 1]] : k \in 0..(n - 1)}

SamePolyline(a, b) ==
    \/ a = b
    \/ a = Reverse(b)
    \/ /\ Len(a) = Len(b) /\ Len(a) >= 2 /\ IsClosed(a) /\ IsClosed(b)
       /\ (b \in Rotations(a) \/ Reverse(b) \in Rotations(a))

\* the two lists hold the same polylines, each as often, up to reversal
\* and rotation
SamePolylineSets(l1, l2) ==
    /\ Len(l1) = Len(l2)
    /\ \E f \in IndexPerms(Len(l1)) :
         \A i \in 1..Len(l1) : SamePolyline(l1[i], l2[f[i]])

StitchDone == call \in {"connectContourSegments", "connectSegments"}

\* number of segment ends of the list lying on point p
EndsAt(segments, p) ==
    Cardinality({i \in 1..Len(segments) : segments[i].start = p})
  + Cardinality({i \in 1..Len(segments) : segments[i].end = p})

NoBranching(segments) ==
    \A i \in 1..Len(segments) :
        /\ EndsAt(segments, segments[i].start) <= 2
        /\ EndsAt(segments, segments[i].end) <= 2

FloorDiv(a, b) == a \div b

\* Math.ceil(a / b) for b > 0
CeilDiv(a, b) == -((-a) \div b)

\* for (level = startLevel; level <= maxElev; level += interval) push(level)
contourLevels(minElev, maxElev, interval) ==
    LET startLevel == CeilDiv(minElev, interval) * interval
        RECURSIVE Loop(_, _)
        Loop(level, levels) ==
            IF level <= maxElev THEN Loop(level + interval, Append(levels, level))
            ELSE levels
    IN Loop(startLevel, <<>>)

InitLevels ==
    /\ Constructed
    /\ contourInterval = Null
    /\ call = "none"
    /\ \E minElev \in (-ElevBound)..ElevBound :
       \E maxElev \in minElev..Min2(ElevBound, minElev + MaxSpan) :
       \E interval \in 1..MaxInterval :
          args = [minElev |-> minElev, maxElev |-> maxElev, interval |-> interval]
    /\ ret = Null

LevelsCall ==
    /\ call = "none"
    /\ ret' = contourLevels(args.minElev, args.maxElev, args.interval)
    /\ call' = "levels"
    /\ UNCHANGED <<args, appVars>>

NextLevels == LevelsCall

SpecLevels == InitLevels /\ [][NextLevels]_vars

\* C6: for a positive interval the levels are exactly the multiples of the
\* interval from ceil(min/interval)*interval up to max, in ascending order.
C6_LevelsAreMultiples ==
    call = "levels" =>
        /\ \A i \in 1..(Len(ret) - 1) : ret[i] < ret[i + 1]
        /\ {ret[i] : i \in 1..Len(ret)} =
             {v \in (-ElevBound)..ElevBound :
                 /\ v % args.interval = 0
                 /\ args.minElev <= v /\ v <= args.maxElev}

\* C6 witness: the example of the claim, min 12, max 47, interval 10
C6_Witness ==
    /\ call = "levels"
    /\ args = [minElev |-> 12, maxElev |-> 47, interval |-> 10]
    /\ ret = <<20, 30, 40>>

(***************************************************************************)
(* Triangle-based contour extraction (src/app.js:629-792).                 *)
(***************************************************************************)

\* n / d for a division that is exact
ExactDiv(n, d) == IF d > 0 THEN n \div d ELSE (-n) \div (-d)

\* getEdgeIntersection; on integer elevations |maxZ - minZ| < 1e-10 is
\* maxZ = minZ; t * (p1.x - p0.x) with t = (level - p0.z) / (p1.z - p0.z)
getEdgeIntersection(p0, p1, level) ==
    LET minZ == Min2(p0.z, p1.z)
        maxZ == Max2(p0.z, p1.z)
    IN IF level < minZ \/ level > maxZ \/ Abs(maxZ - minZ) < 1 THEN Null
       ELSE Pt(p0.x + ExactDiv((level - p0.z) * (p1.x - p0.x), p1.z - p0.z),
               p0.y + ExactDiv((level - p0.z) * (p1.y - p0.y), p1.z - p0.z))

getTriangleContourSegments(p0, p1, p2, level) ==
    LET edge01 == getEdgeIntersection(p0, p1, level)
        edge12 == getEdgeIntersection(p1, p2, level)
        edge20 == getEdgeIntersection(p2, p0, level)
        intersections ==
            (IF edge01 # Null THEN <<edge01>> ELSE <<>>)
            \o (IF edge12 # Null THEN <<edge12>> ELSE <<>>)
            \o (IF edge20 # Null THEN <<edge20>> ELSE <<>>)
    IN IF Len(intersections) = 2
       THEN <<[start |-> intersections[1], end |-> intersections[2]]>>
       ELSE <<>>

\* for-in order of an object whose keys were inserted in the order of the
\* (ascending) list levels: the non-negative integers first, ascending, then
\* the other keys in insertion order
ForInOrder(levels) ==
    SelectSeq(levels, LAMBDA v : v >= 0) \o SelectSeq(levels, LAMBDA v : v < 0)

SeqMin(s) == CHOOSE v \in {s[i] : i \in 1..Len(s)} : \A i \in 1..Len(s) : v <= s[i]

SeqMax(s) == CHOOSE v \in {s[i] : i \in 1..Len(s)} : \A i \in 1..Len(s) : v >= s[i]

\* the segments of one level, triangle after triangle (src/app.js:677-693);
\* validPoints are records [x, y, elevation], triangles index triples
LevelSegments(validPoints, triangles, level) ==
    FlattenSeq([t \in 1..Len(triangles) |->
        LET P(k) == [x |-> validPoints[triangles[t][k]].x,
                     y |-> validPoints[triangles[t][k]].y,
                     z |-> validPoints[triangles[t][k]].elevation]
        IN getTriangleContourSegments(P(1), P(2), P(3), level)])

\* the object generateContourLinesFromTriangles assigns to originalContours,
\* for at least 3 valid points and their triangulation
contoursFromTriangles(validPoints, triangles, interval) ==
    LET elevations == [i \in 1..Len(validPoints) |-> validPoints[i].elevation]
        levels == contourLevels(SeqMin(elevations), SeqMax(elevations), interval)
        keys == ForInOrder(levels)
    IN [i \in 1..Len(keys) |->
          [level |-> keys[i],
           lines |-> connectContourSegments(
                        LevelSegments(validPoints, triangles, keys[i]))]]

(***************************************************************************)
(* The environment of the workflow.  The selection is the 10 x 10 square   *)
(* in units of 1/CoordScale.  generateSamplePoints places points at        *)
(* random (Mitchell sampling and relaxation): its result is one of the     *)
(* layouts below.  d3.Delaunay is a library: its result is tabulated for   *)
(* the point sets that can reach it.  The elevation oracle answers every   *)
(* request from one of two terrains.                                       *)
(***************************************************************************)
SelBounds == [minX |-> 0, maxX |-> 10 * CoordScale,
              minY |-> 0, maxY |-> 10 * CoordScale]

Corners == <<Pt(0, 0), Pt(40, 0), Pt(40, 40), Pt(0, 40)>>

\* the four corners and the centre
LayoutSquare == Corners \o <<Pt(20, 20)>>

\* the four corners, the centre and a point one unit west of it
LayoutPair == Corners \o <<Pt(16, 20), Pt(20, 20)>>

Layouts == {LayoutSquare, LayoutPair}

Terrains == {"peak", "corner"}

Elevation(terrain, p) ==
    CASE terrain = "peak" ->
            IF p.x > 0 /\ p.x < 40 /\ p.y > 0 /\ p.y < 40 THEN 100 ELSE 0
      [] terrain = "corner" -> IF p.x = 0 /\ p.y = 0 THEN 100 ELSE 0

Intervals == {50, 100}

\* d3.Delaunay.from(pointsArray).triangles, as index triples (1-based)
Triangulate(positions) ==
    CASE positions = LayoutSquare ->
            << <<1, 2, 5>>, <<2, 3, 5>>, <<3, 4, 5>>, <<4, 1, 5>> >>
      [] positions = LayoutPair ->
            << <<1, 2, 6>>, <<2, 3, 6>>, <<3, 4, 6>>, <<4, 1, 5>>,
               <<4, 5, 6>>, <<1, 6, 5>> >>
      [] positions = LayoutPair \o <<Pt(18, 20)>> ->
            << <<1, 2, 6>>, <<2, 3, 6>>, <<3, 4, 6>>, <<4, 1, 5>>,
               <<4, 5, 7>>, <<4, 7, 6>>, <<1, 7, 5>>, <<1, 6, 7>> >>
      [] positions = Corners \o <<Pt(16, 20)>> ->
            << <<1, 2, 5>>, <<2, 3, 5>>, <<3, 4, 5>>, <<4, 1, 5>> >>
      [] OTHER -> <<>>

(***************************************************************************)
(* Elevation fetch and adaptive refinement (src/app.js:494-627).  A sample *)
(* object is a record [x, y, elevation]; its elevation is Null or <<v>>.   *)
(***************************************************************************)
batchSize == 200

FixedDigits == 100000000

NumBatches(n) == (n + batchSize - 1) \div batchSize

FirstBatch(points, batchIndex) == SubSeq(points, 1, Min2(batchSize, Len(points)))

\* batches[batchIndex] = points.slice(i, i + batchSize), batchIndex from 0
Batch(points, batchIndex) ==
    SubSeq(points, batchIndex * batchSize + 1,
           Min2((batchIndex + 1) * batchSize, Len(points)))

\* data.results of one request: one elevation per location, in order
OracleResults(terrain, objs, batch) ==
    [i \in 1..Len(batch) |-> Elevation(terrain, objs[batch[i]])]

\* data.results.forEach: points[batchStartIdx + index].elevation = result
AssignResults(objs, points, batchStartIdx, results) ==
    [id \in DOMAIN objs |->
        IF \E index \in 1..Len(results) :
              batchStartIdx + index <= Len(points) /\ points[batchStartIdx + index] = id
        THEN LET index == CHOOSE k \in 1..Len(results) :
                             /\ batchStartIdx + k <= Len(points)
                             /\ points[batchStartIdx + k] = id
                             /\ \A q \in (k + 1)..Len(results) :
                                   ~(batchStartIdx + q <= Len(points)
                                     /\ points[batchStartIdx + q] = id)
             IN [objs[id] EXCEPT !.elevation = <<results[index]>>]
        ELSE objs[id]]

\* a null elevation in arithmetic is 0
ElevNum(e) == IF e = Null THEN 0 ELSE e[1]

\* distance < 0.15 * max(width, height), squared: 0.15 = 3/20
IsNeighbor(p, q, bounds) ==
    LET dx == p.x - q.x
        dy == p.y - q.y
        m == Max2(bounds.maxX - bounds.minX, bounds.maxY - bounds.minY)
    IN 400 * (dx * dx + dy * dy) < 9 * m * m

FirstOfPair(p, q) == Pt(p.x, p.y)

\* midpoint: {x: (points[i].x + points[j].x) / 2, y: ...}
Midpoint(p, q) == Pt(ExactDiv(p.x + q.x, 2), ExactDiv(p.y + q.y, 2))

\* the differences array before sorting (src/app.js:570-594)
Differences(pts, bounds) ==
    FlattenSeq([i \in 1..Len(pts) |->
        FlattenSeq([k \in 1..(Len(pts) - i) |->
            LET j == i + k
            IN IF IsNeighbor(pts[i], pts[j], bounds)
               THEN <<[i |-> i, j |-> j,
                       elevDiff |-> Abs(ElevNum(pts[i].elevation)
                                        - ElevNum(pts[j].elevation)),
                       midpoint |-> Midpoint(pts[i], pts[j])]>>
               ELSE <<>>])])

\* midpoint.x.toFixed(8) + ',' + midpoint.y.toFixed(8)
MidpointKey(p) ==
    <<p.x * (FixedDigits \div CoordScale), p.y * (FixedDigits \div CoordScale)>>

\* the newPoints of adaptiveRefinement, as positions (src/app.js:596-617)
RefinementMidpoints(pts, bounds) ==
    LET differences == SortAscending(Differences(pts, bounds), LAMBDA d : d.elevDiff)
        percentile95Index == (Len(differences) * 95) \div 100
        threshold == IF percentile95Index + 1 <= Len(differences)
                     THEN differences[percentile95Index + 1].elevDiff ELSE 0
        RECURSIVE Add(_, _, _)
        Add(i, newPoints, addedPoints) ==
            IF i > Len(differences) THEN newPoints
            ELSE IF differences[i].elevDiff >= threshold
                    /\ MidpointKey(differences[i].midpoint) \notin addedPoints
                 THEN Add(i + 1, Append(newPoints, differences[i].midpoint),
                          addedPoints \cup {MidpointKey(differences[i].midpoint)})
                 ELSE Add(i + 1, newPoints, addedPoints)
    IN Add(1, <<>>, {})

(***************************************************************************)
(* The workflow (src/app.js): the handlers of the page and the steps of    *)
(* the asynchronous lockPointsAndFetchElevations between its awaits.       *)
(***************************************************************************)
Range(s) == {s[i] : i \in 1..Len(s)}

\* the sample objects some field or local variable still refers to
Live(smp, refp, r) ==
    Range(smp) \cup Range(refp)
    \cup (IF r = Null THEN {} ELSE Range(r.points) \cup Range(r.newPoints))

Collect(objs, live) == [id \in DOMAIN objs \cap live |-> objs[id]]

\* n new objects {x, y, elevation: null} at the given positions, the run
\* having created `created` objects before
NewIds(runNo, created, n) == [i \in 1..n |-> <<runNo, created + i>>]

Alloc(objs, ids, positions) ==
    [id \in DOMAIN objs \cup Range(ids) |->
        IF id \in DOMAIN objs THEN objs[id]
        ELSE LET i == CHOOSE k \in 1..Len(ids) : ids[k] = id
             IN [x |-> positions[i].x, y |-> positions[i].y, elevation |-> Null]]

RefetchAll(current, newPoints) == current \o newPoints

\* the array adaptiveRefinement hands to fetchElevations (src/app.js:623)
RefineTarget(current, newPoints) == newPoints

SameRef(source) == source

\* the object JSON.parse returns is a new one
FreshRef(source) == CHOOSE r \in ContourRefs : r # source

Init ==
    /\ Constructed
    /\ contourInterval \in Intervals
    /\ call = "none"
    /\ args = <<>>
    /\ ret = Null

\* right mouse button down on the map (src/app.js:196-214), clearContours
RightMouseDown ==
    /\ isSelecting' = TRUE
    /\ originalContours' = NullRef
    /\ currentContours' = NullRef
    /\ samples' = <<>>
    /\ contourObjs' = [o \in ContourRefs |-> Null]
    /\ generatedFrom' = Null
    /\ sampleObjs' = Collect(sampleObjs, Live(<<>>, refinementPoints, run))
    /\ UNCHANGED <<selectedBounds, refinementPoints, simplificationPointRanking,
                   sliderValue, sliderMax, contourInterval,
                   lockBtnDisabled, status, alertMsg, pc, run, runs,
                   abortedSamples>>
    /\ runsAtClear' = runs
    /\ UNCHANGED pureVars

\* right mouse button up (src/app.js:239-257); the rectangle exists when the
\* mouse moved during this or an earlier selection
MouseUp ==
    /\ isSelecting
    /\ isSelecting' = FALSE
    /\ \E selectionRectangle \in BOOLEAN :
          selectedBounds' = IF selectionRectangle THEN SelBounds ELSE selectedBounds
    /\ UNCHANGED <<samples, refinementPoints, originalContours, currentContours,
                   simplificationPointRanking, sampleObjs, contourObjs,
                   sliderValue, sliderMax, contourInterval, lockBtnDisabled,
                   status, alertMsg, pc, run, runs, abortedSamples, generatedFrom>>
    /\ UNCHANGED <<pureVars, runsAtClear>>

\* click on the lock button, up to the first await of fetchElevations
\* (src/app.js:1547-1565 and 494-523); a disabled button receives no click
LockClick ==
    /\ ~lockBtnDisabled
    /\ selectedBounds # Null
    /\ runs < MaxRuns
    /\ \E layout \in Layouts :
          LET ids == NewIds(runs + 1, 0, Len(layout))
              r == [no |-> runs + 1, stage |-> "initial", points |-> ids, batchIndex |-> 0,
                    newPoints |-> <<>>, own |-> Range(ids)]
          IN /\ samples' = ids
             /\ run' = r
             /\ sampleObjs' = Collect(Alloc(sampleObjs, ids, layout),
                                      Live(ids, refinementPoints, r))
    /\ lockBtnDisabled' = TRUE
    /\ pc' = "fetch"
    /\ runs' = runs + 1
    /\ UNCHANGED <<selectedBounds, isSelecting, refinementPoints, originalContours,
                   currentContours, simplificationPointRanking, contourObjs,
                   sliderValue, sliderMax, contourInterval, status, alertMsg,
                   abortedSamples, generatedFrom>>
    /\ UNCHANGED <<pureVars, runsAtClear>>

\* the rest of lockPointsAndFetchElevations after the last await
\* (src/app.js:1580-1594)
Finish(objs, smp, refp) ==
    /\ pc' = "idle"
    /\ run' = Null
    /\ lockBtnDisabled' = FALSE
    /\ samples' = smp
    /\ refinementPoints' = refp
    /\ sampleObjs' = Collect(objs, Live(smp, refp, Null))
    /\ UNCHANGED status

\* the oracle answers the pending request (src/app.js:525-557); after the
\* last batch of the initial fetch adaptiveRefinement runs up to its await
\* (src/app.js:568-621), after the last batch of the refinement fetch the
\* new points are pushed (src/app.js:624-625)
FetchBatchOk ==
    /\ pc = "fetch"
    /\ \E terrain \in Terrains :
          LET batch == Batch(run.points, run.batchIndex)
              results == OracleResults(terrain, sampleObjs, batch)
              objs == AssignResults(sampleObjs, run.points,
                                    run.batchIndex * batchSize, results)
          IN IF run.batchIndex + 1 < NumBatches(Len(run.points))
             THEN /\ run' = [run EXCEPT !.batchIndex = run.batchIndex + 1]
                  /\ sampleObjs' = objs
                  /\ UNCHANGED <<pc, lockBtnDisabled, samples, refinementPoints,
                                 status>>
             ELSE IF run.stage = "initial"
             THEN LET points == [i \in 1..Len(samples) |-> objs[samples[i]]]
                      midpoints == RefinementMidpoints(points, selectedBounds)
                      ids == NewIds(run.no, Cardinality(run.own), Len(midpoints))
                      r == [no |-> run.no, stage |-> "refine",
                            points |-> RefineTarget(samples, ids),
                            batchIndex |-> 0, newPoints |-> ids,
                            own |-> run.own \cup Range(ids)]
                  IN IF midpoints = <<>>
                     THEN Finish(objs, samples, refinementPoints)
                     ELSE /\ status' = "Adding refinement points..."
                          /\ pc' = "refineDelay"
                          /\ run' = r
                          /\ sampleObjs' = Collect(Alloc(objs, ids, midpoints),
                                                   Live(samples, refinementPoints, r))
                          /\ UNCHANGED <<lockBtnDisabled, samples, refinementPoints>>
             ELSE Finish(objs, samples \o run.newPoints, run.newPoints)
    /\ UNCHANGED <<selectedBounds, isSelecting, originalContours, currentContours,
                   simplificationPointRanking, contourObjs, sliderValue, sliderMax,
                   contourInterval, alertMsg, runs, abortedSamples, generatedFrom>>
    /\ UNCHANGED <<pureVars, runsAtClear>>

\* the pending request fails or answers with an error status: fetchElevations
\* throws, lockPointsAndFetchElevations alerts (src/app.js:559-562, 1588-1594)
FetchBatchFail ==
    /\ pc = "fetch"
    /\ alertMsg' = "Error: Failed to fetch elevation data. Please try a smaller area."
    /\ pc' = "idle"
    /\ run' = Null
    /\ lockBtnDisabled' = FALSE
    /\ abortedSamples' = abortedSamples \cup run.own
    /\ sampleObjs' = Collect(sampleObjs, Live(samples, refinementPoints, Null))
    /\ UNCHANGED <<selectedBounds, isSelecting, samples, refinementPoints,
                   originalContours, currentContours, simplificationPointRanking,
                   contourObjs, sliderValue, sliderMax, contourInterval,
                   status, runs, generatedFrom>>
    /\ UNCHANGED <<pureVars, runsAtClear>>

\* await this.delay(100) of adaptiveRefinement ends, the request for the new
\* points is sent (src/app.js:621-623)
RefineDelayDone ==
    /\ pc = "refineDelay"
    /\ pc' = "fetch"
    /\ UNCHANGED <<selectedBounds, isSelecting, samples, refinementPoints,
                   originalContours, currentContours, simplificationPointRanking,
                   sampleObjs, contourObjs, sliderValue, sliderMax,
                   contourInterval, lockBtnDisabled, status, alertMsg, run, runs,
                   abortedSamples, generatedFrom>>
    /\ UNCHANGED <<pureVars, runsAtClear>>

\* generateContourLinesFromTriangles(this.samples, interval)
\* (src/app.js:629-706) with calculateSimplificationRanking
generateContourLinesFromTriangles(interval) ==
    LET validIds == SelectSeq(samples, LAMBDA id : sampleObjs[id].elevation # Null)
        validPoints == [i \in 1..Len(validIds) |->
                          [x |-> sampleObjs[validIds[i]].x,
                           y |-> sampleObjs[validIds[i]].y,
                           elevation |-> sampleObjs[validIds[i]].elevation[1]]]
        pointsArray == [i \in 1..Len(validPoints) |->
                          Pt(validPoints[i].x, validPoints[i].y)]
        contours == contoursFromTriangles(validPoints, Triangulate(pointsArray), interval)
        copy == FreshRef("o1")
    IN IF Len(validPoints) < 3
       THEN UNCHANGED <<originalContours, currentContours, contourObjs,
                        simplificationPointRanking, sliderValue, sliderMax,
                        generatedFrom>>
       ELSE /\ originalContours' = "o1"
            /\ currentContours' = copy
            /\ contourObjs' = [[o \in ContourRefs |-> Null] EXCEPT
                                  !["o1"] = contours, ![copy] = JsonCopy(contours)]
            /\ simplificationPointRanking' =
                   calculateSimplificationRanking(contourObjs'[originalContours'])
            /\ sliderMax' = Len(simplificationPointRanking')
            /\ sliderValue' = 0
            /\ generatedFrom' = [ids |-> Range(validIds), points |-> validPoints,
                                 interval |-> interval]

\* click on the generate button (src/app.js:97-99, 1730-1758)
GenerateClick ==
    /\ generateContourLinesFromTriangles(contourInterval)
    /\ UNCHANGED <<selectedBounds, isSelecting, samples, refinementPoints,
                   sampleObjs, contourInterval, lockBtnDisabled, status,
                   alertMsg, pc, run, runs, abortedSamples>>
    /\ UNCHANGED <<pureVars, runsAtClear>>

\* input event of the contour-interval field (src/app.js:122-131)
IntervalInput ==
    /\ \E v \in Intervals :
          /\ contourInterval' = v
          /\ IF Len(samples) > 0
             THEN generateContourLinesFromTriangles(v)
             ELSE UNCHANGED <<originalContours, currentContours, contourObjs,
                              simplificationPointRanking, sliderValue, sliderMax,
                              generatedFrom>>
    /\ UNCHANGED <<selectedBounds, isSelecting, samples, refinementPoints,
                   sampleObjs, lockBtnDisabled, status, alertMsg, pc, run,
                   runs, abortedSamples>>
    /\ UNCHANGED <<pureVars, runsAtClear>>

\* a count-based simplification that never gives a removed vertex back: it
\* removes at least as many ranked entries as the slider held before
applySimplificationCumulative(removeCount) ==
    IF originalContours = NullRef
    THEN UNCHANGED <<currentContours, contourObjs>>
    ELSE LET copy == FreshRef(originalContours)
         IN /\ currentContours' = copy
            /\ contourObjs' = [contourObjs EXCEPT ![copy] =
                   simplifiedByCount(contourObjs[originalContours],
                                     simplificationPointRanking,
                                     Max2(removeCount, sliderValue))]

\* applySimplificationByCount(removeCount) (src/app.js:1067-1149)
applySimplificationByCount(removeCount) ==
    IF originalContours = NullRef
    THEN UNCHANGED <<currentContours, contourObjs>>
    ELSE LET copy == FreshRef(originalContours)
         IN /\ currentContours' = copy
            /\ contourObjs' = [contourObjs EXCEPT ![copy] =
                   simplifiedByCount(contourObjs[originalContours],
                                     simplificationPointRanking, removeCount)]

\* input event of the simplify slider (src/app.js:114-120)
SliderInput ==
    /\ \E removeCount \in 0..Min2(sliderMax, MaxRemove) :
          /\ sliderValue' = removeCount
          /\ applySimplificationByCount(removeCount)
    /\ UNCHANGED <<selectedBounds, isSelecting, samples, refinementPoints,
                   originalContours, simplificationPointRanking, sampleObjs,
                   sliderMax, contourInterval, lockBtnDisabled, status,
                   alertMsg, pc, run, runs, abortedSamples, generatedFrom>>
    /\ UNCHANGED <<pureVars, runsAtClear>>

\* click on the export button (src/app.js:133-135, 1251-1318)
ExportClick ==
    /\ status' = IF currentContours = NullRef THEN "No contours to export"
                 ELSE "SVG exported successfully!"
    /\ UNCHANGED <<selectedBounds, isSelecting, samples, refinementPoints,
                   originalContours, currentContours, simplificationPointRanking,
                   sampleObjs, contourObjs, sliderValue, sliderMax,
                   contourInterval, lockBtnDisabled, alertMsg, pc, run, runs,
                   abortedSamples, generatedFrom>>
    /\ UNCHANGED <<pureVars, runsAtClear>>

\* applySimplification(threshold) (src/app.js:1053-1065); no handler of the
\* page calls it
ApplySimplificationCall ==
    /\ originalContours # NullRef
    /\ \E th \in Thresholds :
          LET orig == contourObjs[originalContours]
              fresh == FreshRef(originalContours)
          IN /\ currentContours' = fresh
             /\ contourObjs' = [contourObjs EXCEPT ![fresh] =
                    [i \in 1..Len(orig) |->
                        [level |-> orig[i].level,
                         lines |-> simplifyLines(orig[i].lines, th)]]]
    /\ UNCHANGED <<selectedBounds, isSelecting, samples, refinementPoints,
                   originalContours, simplificationPointRanking, sampleObjs,
                   sliderValue, sliderMax, contourInterval,
                   lockBtnDisabled, status, alertMsg, pc, run, runs,
                   abortedSamples, generatedFrom>>
    /\ UNCHANGED <<pureVars, runsAtClear>>

Next ==
    \/ RightMouseDown
    \/ MouseUp
    \/ LockClick
    \/ FetchBatchOk
    \/ FetchBatchFail
    \/ RefineDelayDone
    \/ GenerateClick
    \/ IntervalInput
    \/ SliderInput
    \/ ExportClick

Spec == Init /\ [][Next]_vars

NextApi ==
    \/ Next
    \/ ApplySimplificationCall

SpecApi == Init /\ [][NextApi]_vars

(***************************************************************************)
(* Properties of the workflow.                                             *)
(***************************************************************************)
Original == contourObjs[originalContours]

Current == contourObjs[currentContours]

\* C2 (as stated): whenever contours are shown, the slider being at K (the
\* argument of the last applySimplificationByCount since the generation),
\* currentContours holds exactly K vertices less than originalContours.
C2_RemovesExactlyK ==
    (originalContours # NullRef /\ currentContours # NullRef)
        => TotalPoints(Current) = TotalPoints(Original) - sliderValue

\* C2 (amended): whenever contours are shown, the slider being at K,
\* currentContours holds at most K vertices less than originalContours, and
\* never more vertices than originalContours.
C2_RemovesAtMostK ==
    (originalContours # NullRef /\ currentContours # NullRef)
        => /\ TotalPoints(Current) >= TotalPoints(Original) - sliderValue
           /\ TotalPoints(Current) <= TotalPoints(Original)

\* a count-based simplification that removed a vertex
C2_Witness ==
    /\ originalContours # NullRef
    /\ currentContours # NullRef
    /\ sliderValue >= 1
    /\ TotalPoints(Current) < TotalPoints(Original)

\* the 4 corners at elevation 0 and the centre at elevation 100
SquareScenario ==
    [i \in 1..Len(LayoutSquare) |->
        [x |-> LayoutSquare[i].x, y |-> LayoutSquare[i].y,
         elevation |-> IF i <= Len(Corners) THEN 0 ELSE 100]]

\* C5: in the contours generated from the square scenario at interval 50
\* the only level that holds a polyline is 50, and it holds a single
\* polyline, which is closed.
C5_SquareScenarioOneLevel ==
    (/\ originalContours # NullRef
     /\ generatedFrom # Null
     /\ generatedFrom.points = SquareScenario
     /\ generatedFrom.interval = 50)
        => /\ \A i \in 1..Len(Original) :
                 Original[i].lines # <<>> => Original[i].level = 50
           /\ \E i \in 1..Len(Original) :
                 /\ Original[i].level = 50
                 /\ Len(Original[i].lines) = 1
                 /\ IsClosed(Original[i].lines[1])

\* a step that is a contour generation or clearContours
GenerationOrClear ==
    \/ RightMouseDown
    \/ GenerateClick
    \/ IntervalInput

\* C8: once originalContours is set, a step leaves it referring to the same
\* object with the same levels, polylines and coordinates, unless the step
\* is a contour generation or clearContours.
C8_OriginalIsSnapshot ==
    [][\/ originalContours = NullRef
       \/ /\ originalContours' = originalContours
          /\ contourObjs'[originalContours] = contourObjs[originalContours]
       \/ GenerationOrClear]_vars

\* contours simplified to fewer vertices, then exported
C8_Witness ==
    /\ originalContours # NullRef
    /\ currentContours # NullRef
    /\ TotalPoints(Current) < TotalPoints(Original)
    /\ status = "SVG exported successfully!"

\* C9: no step changes the elevation of a sample object whose elevation is
\* not null.
C9_ElevationIsFinal ==
    [][\A id \in DOMAIN sampleObjs \cap DOMAIN sampleObjs' :
          sampleObjs[id].elevation # Null
             => sampleObjs'[id].elevation = sampleObjs[id].elevation]_vars

\* a finished run with refinement whose samples all hold an elevation, and
\* contours generated from them
C9_Witness ==
    /\ pc = "idle"
    /\ refinementPoints # <<>>
    /\ Range(refinementPoints) \subseteq Range(samples)
    /\ \A id \in Range(samples) : sampleObjs[id].elevation # Null
    /\ generatedFrom # Null
    /\ generatedFrom.ids = Range(samples)

\* C10: no contour generation reads a sample of a run that an oracle
\* failure has aborted.
C10_NoContoursFromAbortedRun ==
    [][(generatedFrom' # generatedFrom /\ generatedFrom' # Null)
          => generatedFrom'.ids \cap abortedSamples = {}]_vars

(***************************************************************************)
(* Contour generation on a given sample array: the specification           *)
(* SpecGenerate starts with this.samples holding points of which any may   *)
(* lack an elevation (the oracle may answer null for a point) and clicks   *)
(* the generate button once.                                               *)
(***************************************************************************)

\* the longest sample array drawn
MaxSamples == 6

\* the sample arrays drawn: a layout, each point with the elevation of a
\* terrain or none
SampleArrays ==
    {[i \in 1..Len(layout) |->
        [x |-> layout[i].x, y |-> layout[i].y,
         elevation |-> IF has[i] THEN <<Elevation(terrain, layout[i])>> ELSE Null]] :
       layout \in Layouts, terrain \in Terrains, has \in [1..MaxSamples -> BOOLEAN]}

\* points.filter(p => p.elevation !== null && p.elevation !== undefined)
ValidOf(points) == SelectSeq(points, LAMBDA p : p.elevation # Null)

PositionsOf(points) == [i \in 1..Len(points) |-> Pt(points[i].x, points[i].y)]

\* the objects of this.samples, in array order
SamplePoints == [i \in 1..Len(samples) |-> sampleObjs[samples[i]]]

InitGenerate ==
    /\ call = "none"
    /\ args = <<>>
    /\ ret = Null
    /\ contourInterval \in Intervals
    /\ selectedBounds = SelBounds
    /\ \E points \in SampleArrays :
          /\ Len(ValidOf(points)) < 3
                \/ Triangulate(PositionsOf(ValidOf(points))) # <<>>
          /\ samples = [i \in 1..Len(points) |-> <<0, i>>]
          /\ sampleObjs = [id \in {<<0, i>> : i \in 1..Len(points)} |-> points[id[2]]]
    /\ isSelecting = FALSE
    /\ refinementPoints = <<>>
    /\ originalContours = NullRef
    /\ currentContours = NullRef
    /\ simplificationPointRanking = <<>>
    /\ contourObjs = [o \in ContourRefs |-> Null]
    /\ sliderValue = 0
    /\ sliderMax = 0
    /\ lockBtnDisabled = FALSE
    /\ status = ""
    /\ alertMsg = ""
    /\ pc = "idle"
    /\ run = Null
    /\ runs = 0
    /\ abortedSamples = {}
    /\ generatedFrom = Null
    /\ runsAtClear = 0

\* generateContoursFromElevations() (src/app.js:1730-1758): no statement of
\* generateContourLinesFromTriangles throws, so the catch never alerts
GenerateCall ==
    /\ call = "none"
    /\ call' = "generateContoursFromElevations"
    /\ generateContourLinesFromTriangles(contourInterval)
    /\ UNCHANGED <<args, ret>>
    /\ UNCHANGED <<selectedBounds, isSelecting, samples, refinementPoints,
                   sampleObjs, contourInterval, lockBtnDisabled, status,
                   alertMsg, pc, run, runs, abortedSamples, runsAtClear>>

NextGenerate == GenerateCall

SpecGenerate == InitGenerate /\ [][NextGenerate]_vars

\* C11: after a contour generation on fewer than 3 samples with an elevation
\* an error has been reported and no contours exist; on 3 or more the
\* contours were generated from exactly the samples with an elevation.
C11_InsufficientSamplesReported ==
    call = "generateContoursFromElevations" =>
        IF Len(ValidOf(SamplePoints)) < 3
        THEN alertMsg # "" /\ originalContours = NullRef
        ELSE /\ alertMsg = ""
             /\ originalContours # NullRef
             /\ PositionsOf(generatedFrom.points) = PositionsOf(ValidOf(SamplePoints))

(***************************************************************************)
(* Clearing and generating while a lockPointsAndFetchElevations call is    *)
(* suspended at an await (specification Spec).                             *)
(***************************************************************************)

\* the run that created a sample object
RunOf(id) == id[1]

\* C12: this.samples never contains a point (initial sample or refinement
\* midpoint) created by a run that started before the most recent
\* clearContours.
C12_NoSamplesOfClearedRun ==
    \A i \in 1..Len(samples) : RunOf(samples[i]) > runsAtClear

\* the sample objects the suspended call still fetches for or refines
InFlight == IF pc = "idle" THEN {} ELSE run.own

\* C13: no step generates contours from samples whose elevation fetch or
\* adaptive refinement is still in flight.
C13_NoGenerationInFlight ==
    [][(generatedFrom' # generatedFrom /\ generatedFrom' # Null)
          => generatedFrom'.ids \cap InFlight = {}]_vars

(***************************************************************************)
(* Adaptive refinement as a function: the specification SpecRefine draws   *)
(* two samples with elevations and applies adaptiveRefinement to them.     *)
(***************************************************************************)

\* the coordinates drawn for the two samples (twice a model unit, so that
\* the midpoint is a model coordinate)
RefineCoords == {0, 2, 4, 6}

\* an elevation the oracle answered, or the null a sample is created with
\* and keeps when the oracle answers null for it
RefineElevations == {Null, <<0>>, <<100>>}

SamplePairs ==
    {<<[x |-> px, y |-> py, elevation |-> e1],
       [x |-> qx, y |-> qy, elevation |-> e2]>> :
       px \in RefineCoords, py \in RefineCoords, qx \in RefineCoords,
       qy \in RefineCoords, e1 \in RefineElevations, e2 \in RefineElevations}

InitRefine ==
    /\ Constructed
    /\ contourInterval = 100
    /\ call = "none"
    /\ ret = Null
    /\ \E points \in SamplePairs :
          /\ Pt(points[1].x, points[1].y) # Pt(points[2].x, points[2].y)
          /\ args = [points |-> points, bounds |-> SelBounds]

\* adaptiveRefinement(points) with this.samples = points (src/app.js:568-627):
\* the request for the new points succeeds or fetchElevations throws
RefineCall ==
    /\ call = "none"
    /\ call' = "adaptiveRefinement"
    /\ \E terrain \in Terrains, ok \in BOOLEAN :
          LET midpoints == RefinementMidpoints(args.points, args.bounds)
              newPoints == [i \in 1..Len(midpoints) |->
                              [x |-> midpoints[i].x, y |-> midpoints[i].y,
                               elevation |-> <<Elevation(terrain, midpoints[i])>>]]
          IN ret' = IF midpoints = <<>> \/ ok
                    THEN [thrown |-> FALSE, samples |-> args.points \o newPoints]
                    ELSE [thrown |-> TRUE, samples |-> args.points]
    /\ UNCHANGED args
    /\ UNCHANGED appVars

NextRefine == RefineCall

SpecRefine == InitRefine /\ [][NextRefine]_vars

\* the two samples have elevations 0 and 100 and are closer than
\* 0.15 * max(width, height)
TwoNearSamples ==
    /\ call = "adaptiveRefinement"
    /\ {args.points[1].elevation, args.points[2].elevation} = {<<0>>, <<100>>}
    /\ LET dx == args.points[1].x - args.points[2].x
           dy == args.points[1].y - args.points[2].y
           w == args.bounds.maxX - args.bounds.minX
           h == args.bounds.maxY - args.bounds.minY
       IN 400 * (dx * dx + dy * dy) < 9 * Max2(w, h) * Max2(w, h)

\* C14: adaptiveRefinement on exactly two samples with elevations 0 and 100
\* closer than 0.15 * max(width, height) inserts, when it completes, exactly
\* one new point after the two samples, at their midpoint.
C14_OneMidpoint ==
    (TwoNearSamples /\ ~ret.thrown) =>
        /\ Len(ret.samples) = 3
        /\ SubSeq(ret.samples, 1, 2) = args.points
        /\ 2 * ret.samples[3].x = args.points[1].x + args.points[2].x
        /\ 2 * ret.samples[3].y = args.points[1].y + args.points[2].y

C14_Witness ==
    /\ TwoNearSamples
    /\ ~ret.thrown
    /\ Len(ret.samples) = 3
    /\ ret.samples[3].x # args.points[1].x

(***************************************************************************)
(* Inverse-distance interpolation (src/app.js:917-983).  A result is the   *)
(* fraction num/den, or NaN when the code divides infinities or 0 by 0.    *)
(* The specification SpecInterp draws samples, a triangle list and a query *)
(* point and applies interpolateElevation or interpolateDelaunay.          *)
(***************************************************************************)
InterpGridX == 2

InterpGridY == 1

NaN == [nan |-> TRUE, num |-> 0, den |-> 0]

Number(num, den) == [nan |-> FALSE, num |-> num, den |-> den]

\* dx * dx + dy * dy
Dist2(x, y, p) == (x - p.x) * (x - p.x) + (y - p.y) * (y - p.y)

NeverAtPoint(d2) == FALSE

\* distance < 1e-10; model coordinates are whole, so only distance 0 is
AtPoint(d2) == d2 = 0

\* the product of all elements of ds but the i-th
ProdExcept(ds, i) ==
    LET RECURSIVE Prod(_)
        Prod(k) == IF k > Len(ds) THEN 1
                   ELSE (IF k = i THEN 1 ELSE ds[k]) * Prod(k + 1)
    IN Prod(1)

\* the loop over the points: return at the first point within 1e-10, else
\* numerator / denominator with weight 1 / distance^2 (1 / 0 is Infinity)
idw(x, y, pts) ==
    LET ds == [i \in 1..Len(pts) |-> Dist2(x, y, pts[i])]
        hits == {i \in 1..Len(pts) : AtPoint(ds[i])}
    IN IF hits # {}
       THEN Number(pts[CHOOSE i \in hits : \A k \in hits : i <= k].elevation, 1)
       ELSE IF pts = <<>> \/ \E i \in 1..Len(pts) : ds[i] = 0
       THEN NaN
       ELSE Number(SeqSum([i \in 1..Len(pts) |-> pts[i].elevation * ProdExcept(ds, i)]),
                   SeqSum([i \in 1..Len(pts) |-> ProdExcept(ds, i)]))

interpolateElevation(x, y, points) == idw(x, y, points)

interpolateDelaunay(x, y, nearestIndex, triangles, points) ==
    LET neighbors == FlattenSeq([t \in 1..Len(triangles) |->
                        IF nearestIndex \in Range(triangles[t])
                        THEN triangles[t] ELSE <<>>])
        uniqueNeighbors == FilterIdx(neighbors,
                              LAMBDA i : \A j \in 1..(i - 1) : neighbors[j] # neighbors[i])
    IN IF Len(uniqueNeighbors) = 0
       THEN Number(points[nearestIndex].elevation, 1)
       ELSE idw(x, y, [k \in 1..Len(uniqueNeighbors) |-> points[uniqueNeighbors[k]]])

\* delaunay.find(x, y): the index of the sample nearest to (x, y)
Nearest(x, y, points) ==
    CHOOSE i \in 1..Len(points) :
        \A k \in 1..Len(points) :
            \/ Dist2(x, y, points[i]) < Dist2(x, y, points[k])
            \/ Dist2(x, y, points[i]) = Dist2(x, y, points[k]) /\ i <= k

InterpGrid == {Pt(px, py) : px \in 0..InterpGridX, py \in 0..InterpGridY}

\* four samples at distinct grid positions with elevations 0 or 100
InterpSamples ==
    {[i \in 1..4 |-> [x |-> pos[i].x, y |-> pos[i].y, elevation |-> el[i]]] :
       pos \in {q \in [1..4 -> InterpGrid] : \A i, j \in 1..4 : i < j => q[i] # q[j]},
       el \in [1..4 -> {0, 100}]}

InterpTriangles ==
    { <<>>, << <<1, 2, 3>> >>, << <<1, 2, 3>>, <<2, 3, 4>> >>, << <<1, 3, 4>> >> }

InitInterp ==
    /\ Constructed
    /\ contourInterval = 100
    /\ call = "none"
    /\ ret = Null
    /\ \E points \in InterpSamples, q \in InterpGrid, triangles \in InterpTriangles :
          /\ \A i \in 1..3 : points[i].x < points[i + 1].x
                             \/ (points[i].x = points[i + 1].x /\ points[i].y < points[i + 1].y)
          /\ args = [x |-> q.x, y |-> q.y, points |-> points, triangles |-> triangles]

InterpolateElevationCall ==
    /\ call = "none"
    /\ call' = "interpolateElevation"
    /\ ret' = interpolateElevation(args.x, args.y, args.points)
    /\ UNCHANGED args
    /\ UNCHANGED appVars

InterpolateDelaunayCall ==
    /\ call = "none"
    /\ call' = "interpolateDelaunay"
    /\ ret' = interpolateDelaunay(args.x, args.y,
                                  Nearest(args.x, args.y, args.points),
                                  args.triangles, args.points)
    /\ UNCHANGED args
    /\ UNCHANGED appVars

NextInterp == InterpolateElevationCall \/ InterpolateDelaunayCall

SpecInterp == InitInterp /\ [][NextInterp]_vars

\* the samples at the query point
SamplesAtQuery ==
    {i \in 1..Len(args.points) : Pt(args.points[i].x, args.points[i].y) = Pt(args.x, args.y)}

\* C15: interpolateElevation and interpolateDelaunay (given the index of the
\* nearest sample), queried at the coordinate of a sample, return that
\* sample's elevation.
C15_ExactAtSample ==
    call \in {"interpolateElevation", "interpolateDelaunay"} =>
        \A i \in SamplesAtQuery : ret = Number(args.points[i].elevation, 1)

C15_Witness ==
    /\ call = "interpolateDelaunay"
    /\ SamplesAtQuery = {4}
    /\ args.triangles = << <<1, 2, 3>>, <<2, 3, 4>> >>
    /\ ret = Number(100, 1)

(***************************************************************************)
(* Sample generation (src/app.js:359-429, src/mitchell-sampling.js).  A    *)
(* count is a natural number, NotANumber or Infinite; a coordinate is the  *)
(* fraction n/d, with d = 0 for the NaN that 0/0 yields.  The positions    *)
(* Math.random gives the interior points are not modelled: an interior     *)
(* point is known by its number and by whether its coordinates are NaN.    *)
(* The specification SpecSample draws totalSamples and the bounds.         *)
(***************************************************************************)
MaxTotal == 24

NotANumber == -1

Infinite == -2

Coord(n, d) == [n |-> n, d |-> d]

IsNaN(c) == c.d = 0

\* Math.round(totalSamples * 0.25), totalSamples >= 0
Quarter(totalSamples) == (totalSamples + 2) \div 4

\* Math.round(Math.sqrt(a / b)), b > 0
RoundSqrt(a, b) ==
    CHOOSE n \in 0..(a + 1) :
        /\ n = 0 \/ (2 * n - 1) * (2 * n - 1) * b <= 4 * a
        /\ 4 * a < (2 * n + 1) * (2 * n + 1) * b

\* Math.round(a / b), b > 0
RoundDiv(a, b) == (2 * a + b) \div (2 * b)

\* const xSamples = Math.round(Math.sqrt(edgeSamples * (width / height)))
xSamplesOf(edgeSamples, width, height) ==
    IF height = 0
    THEN (IF width = 0 \/ edgeSamples = 0 THEN NotANumber ELSE Infinite)
    ELSE RoundSqrt(edgeSamples * width, height)

\* const ySamples = Math.round(edgeSamples / xSamples)
ySamplesOf(edgeSamples, xSamples) ==
    IF xSamples = NotANumber THEN NotANumber
    ELSE IF xSamples = Infinite THEN 0
    ELSE IF xSamples = 0 THEN (IF edgeSamples = 0 THEN NotANumber ELSE Infinite)
    ELSE RoundDiv(edgeSamples, xSamples)

\* the points of the four edge loops (src/app.js:385-407), the counts finite
EdgePoints(bounds, xSamples, ySamples) ==
    LET width == bounds.maxX - bounds.minX
        height == bounds.maxY - bounds.minY
        xs == IF xSamples = NotANumber THEN 0 ELSE xSamples
        ys == IF ySamples = NotANumber THEN 0 ELSE ySamples
        X(i) == Coord(bounds.minX * (xs - 1) + i * width, xs - 1)
        Y(i) == Coord(bounds.minY * (ys - 1) + i * height, ys - 1)
        top == [k \in 1..xs |-> [x |-> X(k - 1), y |-> Coord(bounds.maxY, 1)]]
        bottom == [k \in 1..xs |-> [x |-> X(k - 1), y |-> Coord(bounds.minY, 1)]]
        left == [i \in 1..(ys - 2) |-> [x |-> Coord(bounds.minX, 1), y |-> Y(i)]]
        right == [i \in 1..(ys - 2) |-> [x |-> Coord(bounds.maxX, 1), y |-> Y(i)]]
    IN top \o bottom \o left \o right

\* MitchellSampling.generate(targetCount): the number of points returned;
\* the first point is pushed whatever targetCount is, and a candidate at
\* distance 0 of a point is never the best, so that bounds of one point
\* never yield a second one (Infinite: the while loop does not end)
mitchellGenerate(targetCount, bounds) ==
    IF targetCount <= 1 THEN 1
    ELSE IF bounds.maxX = bounds.minX /\ bounds.maxY = bounds.minY THEN Infinite
    ELSE targetCount

\* generateSamplePoints(totalSamples) with this.selectedBounds = bounds: the
\* outcomes.  An edge loop whose count is Infinity pushes points until the
\* array length is invalid (RangeError) or the memory is exhausted.
generateSamplePoints(totalSamples, bounds) ==
    LET width == bounds.maxX - bounds.minX
        height == bounds.maxY - bounds.minY
        edgeSamples == Quarter(totalSamples)
        interiorSamples == totalSamples - edgeSamples
        xSamples == xSamplesOf(edgeSamples, width, height)
        ySamples == ySamplesOf(edgeSamples, xSamples)
        edgePoints == EdgePoints(bounds, xSamples, ySamples)
        interiorCount == mitchellGenerate(interiorSamples, bounds)
        \* PointRelaxation.relax: a NaN coordinate makes every force NaN
        relaxedNaN == \E i \in 1..Len(edgePoints) :
                         IsNaN(edgePoints[i].x) \/ IsNaN(edgePoints[i].y)
        interiorPoints == [k \in 1..interiorCount |-> [interior |-> k, nan |-> relaxedNaN]]
    IN IF xSamples = Infinite \/ ySamples = Infinite
       THEN {[outcome |-> o, points |-> <<>>, numBoundaryPoints |-> 0] :
                o \in {"RangeError", "out of memory"}}
       ELSE IF interiorCount = Infinite
       THEN {[outcome |-> "no return", points |-> <<>>, numBoundaryPoints |-> 0]}
       ELSE {[outcome |-> "returned", points |-> edgePoints \o interiorPoints,
              numBoundaryPoints |-> Len(edgePoints)]}

SampleBounds ==
    {[minX |-> 0, maxX |-> w, minY |-> 0, maxY |-> h] :
        w \in {0, MaxSpan, 2 * MaxSpan}, h \in {0, MaxSpan, 2 * MaxSpan}}

InitSample ==
    /\ Constructed
    /\ contourInterval = 100
    /\ call = "none"
    /\ ret = Null
    /\ \E totalSamples \in 0..MaxTotal, bounds \in SampleBounds :
          args = [totalSamples |-> totalSamples, bounds |-> bounds]

GenerateSamplePointsCall ==
    /\ call = "none"
    /\ call' = "generateSamplePoints"
    /\ ret' \in generateSamplePoints(args.totalSamples, args.bounds)
    /\ UNCHANGED args
    /\ UNCHANGED appVars

NextSample == GenerateSamplePointsCall

SpecSample == InitSample /\ [][NextSample]_vars

\* C16: sample generation on bounds of zero width or zero height fails with
\* an InvalidBounds error and produces no sample points.
C16_InvalidBoundsError ==
    (/\ call = "generateSamplePoints"
     /\ \/ args.bounds.maxX = args.bounds.minX
        \/ args.bounds.maxY = args.bounds.minY)
        => ret.outcome = "InvalidBounds" /\ ret.points = <<>>

\* C17: when totalSamples - round(0.25 * totalSamples) <= 0, the points
\* generated are edge points only.
C17_EdgePointsOnly ==
    (/\ call = "generateSamplePoints"
     /\ ret.outcome = "returned"
     /\ args.totalSamples - Quarter(args.totalSamples) <= 0)
        => ret.numBoundaryPoints = Len(ret.points)

\* C18: no edge point generated has a NaN coordinate (a coordinate computed
\* by 0 / 0 when xSamples or ySamples is 1).
C18_NoNaNEdgePoint ==
    call = "generateSamplePoints" =>
        \A i \in 1..ret.numBoundaryPoints :
            ~IsNaN(ret.points[i].x) /\ ~IsNaN(ret.points[i].y)

(***************************************************************************)
(* fetchElevations on more points than a batch holds: the specification    *)
(* SpecFetch starts where adaptiveRefinement calls fetchElevations on its  *)
(* new points (this.samples having been cleared meanwhile) and lets the    *)
(* oracle answer batch after batch.                                        *)
(***************************************************************************)
FetchLengths ==
    {1, batchSize - 1, batchSize, batchSize + 1, 2 * batchSize - 1, 2 * batchSize,
     2 * batchSize + 1}

\* positions the two terrains tell apart, repeated along the array
FetchCycle == <<Pt(0, 0), Pt(20, 20), Pt(40, 0)>>

InitFetch ==
    /\ call = "none"
    /\ args = <<>>
    /\ ret = Null
    /\ contourInterval = 100
    /\ selectedBounds = SelBounds
    /\ isSelecting = FALSE
    /\ samples = <<>>
    /\ refinementPoints = <<>>
    /\ originalContours = NullRef
    /\ currentContours = NullRef
    /\ simplificationPointRanking = <<>>
    /\ contourObjs = [o \in ContourRefs |-> Null]
    /\ sliderValue = 0
    /\ sliderMax = 0
    /\ lockBtnDisabled = TRUE
    /\ status = "Adding refinement points..."
    /\ alertMsg = ""
    /\ pc = "fetch"
    /\ runs = 1
    /\ abortedSamples = {}
    /\ generatedFrom = Null
    /\ runsAtClear = 1
    /\ \E n \in FetchLengths, offset \in 0..(Len(FetchCycle) - 1) :
          LET ids == NewIds(1, 0, n)
          IN /\ run = [no |-> 1, stage |-> "refine", points |-> ids, batchIndex |-> 0,
                       newPoints |-> ids, own |-> Range(ids)]
             /\ sampleObjs = Alloc([id \in {} |-> Null], ids,
                    [i \in 1..n |-> FetchCycle[((i + offset) % Len(FetchCycle)) + 1]])

NextFetch == FetchBatchOk \/ FetchBatchFail

SpecFetch == InitFetch /\ [][NextFetch]_vars

\* the array fetchElevations works on, and the batches answered so far
FetchPoints == IF pc = "fetch" THEN run.points ELSE samples

BatchesDone == IF pc = "fetch" THEN run.batchIndex ELSE NumBatches(Len(samples))

\* C19: the points of every answered batch b, points[200*b + k], hold the
\* elevations one answer of the oracle gives for their own coordinates, and
\* the points of the batches not yet answered hold none.
C19_BatchesInOrder ==
    /\ \A b \in 0..(BatchesDone - 1) :
          \E terrain \in Terrains :
             \A k \in 1..batchSize :
                batchSize * b + k <= Len(FetchPoints) =>
                   LET p == sampleObjs[FetchPoints[batchSize * b + k]]
                   IN p.elevation = <<Elevation(terrain, p)>>
    /\ \A i \in (batchSize * BatchesDone + 1)..Len(FetchPoints) :
          sampleObjs[FetchPoints[i]].elevation = Null

C19_Witness ==
    /\ pc = "idle"
    /\ alertMsg = ""
    /\ Len(samples) = 2 * batchSize + 1
    /\ sampleObjs[samples[1]].elevation # sampleObjs[samples[batchSize + 1]].elevation
    /\ sampleObjs[samples[2 * batchSize + 1]].elevation = <<100>>

(***************************************************************************)
(* The intersection guard and the segments next to the bridge              *)
(* (specification SpecSimplify, action GuardCall).                         *)
(***************************************************************************)

\* C20: wouldCreateIntersection(points, keep, r) returns true only if the
\* bridge from the nearest kept predecessor of r to its nearest kept
\* successor meets a kept segment that has no endpoint in common with it.
C20_AdjacentSegmentsIgnored ==
    (call = "wouldCreateIntersection" /\ ret = <<TRUE>>) =>
        LET prevIndex == PrevKept(args.keep, args.removeIndex)
            nextIndex == NextKept(args.keep, args.removeIndex)
        IN \E i \in 1..(Len(args.points) - 1) :
              /\ args.keep[i]
              /\ NextKept(args.keep, i) <= Len(args.points)
              /\ {i, NextKept(args.keep, i)}
                     \cap {prevIndex, nextIndex, args.removeIndex} = {}
              /\ SegmentsCross(args.points[prevIndex], args.points[nextIndex],
                               args.points[i], args.points[NextKept(args.keep, i)])

(***************************************************************************)
(* The triangle extractor as a function: the specification SpecEdge draws  *)
(* three points with elevations and a level and applies                    *)
(* getEdgeIntersection to the first two or getTriangleContourSegments to   *)
(* the three.                                                              *)
(***************************************************************************)

\* coordinates and elevations on which the interpolation is exact
EdgeCoords == {0, 2}

EdgeElevations == {0, 50, 100}

EdgeLevels == {0, 50, 100, 150}

EdgeVertices ==
    {[x |-> px, y |-> py, z |-> pz] :
        px \in EdgeCoords, py \in EdgeCoords, pz \in EdgeElevations}

InitEdge ==
    /\ Constructed
    /\ contourInterval = 50
    /\ call = "none"
    /\ ret = Null
    /\ \E p0 \in EdgeVertices, p1 \in EdgeVertices, p2 \in EdgeVertices,
          level \in EdgeLevels :
          args = [p0 |-> p0, p1 |-> p1, p2 |-> p2, level |-> level]

EdgeCall ==
    /\ call = "none"
    /\ call' = "getEdgeIntersection"
    /\ ret' = [edge |-> getEdgeIntersection(args.p0, args.p1, args.level)]
    /\ UNCHANGED args
    /\ UNCHANGED appVars

TriangleCall ==
    /\ call = "none"
    /\ call' = "getTriangleContourSegments"
    /\ ret' = [segments |-> getTriangleContourSegments(args.p0, args.p1, args.p2,
                                                       args.level)]
    /\ UNCHANGED args
    /\ UNCHANGED appVars

NextEdge == EdgeCall \/ TriangleCall

SpecEdge == InitEdge /\ [][NextEdge]_vars

\* C21: getEdgeIntersection returns no crossing when the level equals the
\* elevation of an endpoint of the edge, and none when the two elevations
\* are equal.
C21_StrictlyBetween ==
    (/\ call = "getEdgeIntersection"
     /\ \/ args.level = args.p0.z
        \/ args.level = args.p1.z
        \/ args.p0.z = args.p1.z)
        => ret.edge = Null

\* C22: a sample whose elevation is null takes part in no neighbour pair of
\* adaptiveRefinement: of two samples one of which has no elevation, no
\* midpoint is inserted.
C22_NullElevationIgnored ==
    (/\ call = "adaptiveRefinement"
     /\ ~ret.thrown
     /\ \E i \in 1..Len(args.points) : args.points[i].elevation = Null)
        => ret.samples = args.points

(***************************************************************************)
(* What stitching does with its segments (specification SpecStitch).       *)
(***************************************************************************)

\* the number of segments of the list that join a and b, in either direction
SegmentsJoining(segments, a, b) ==
    Cardinality({i \in 1..Len(segments) :
                    {segments[i].start, segments[i].end} = {a, b}})

\* the number of steps of the polylines that join a and b
StepsJoining(lines, a, b) ==
    Cardinality({ik \in {<<i, k>> : i \in 1..Len(lines), k \in 1..MaxSegs} :
                    /\ ik[2] < Len(lines[ik[1]])
                    /\ {lines[ik[1]][ik[2]], lines[ik[1]][ik[2] + 1]} = {a, b}})

\* C23: stitching returns, for every segment list, polylines of at least 2
\* points whose steps are the input segments, each used exactly once: the
\* sum of (points - 1) is the number of segments.
C23_EachSegmentOnce ==
    StitchDone =>
        /\ \A i \in 1..Len(ret.lines) : Len(ret.lines[i]) >= 2
        /\ SeqSum([i \in 1..Len(ret.lines) |-> Len(ret.lines[i]) - 1])
              = Len(args.segments)
        /\ \A a \in StitchPoints, b \in StitchPoints :
              StepsJoining(ret.lines, a, b) = SegmentsJoining(args.segments, a, b)

C23_Witness ==
    /\ call = "connectContourSegments"
    /\ Len(args.segments) = 3
    /\ Len(ret.lines) = 2
    /\ Len(ret.lines[1]) = 3

\* the first and the last point of a polyline
LineEnds(line) == {line[1], line[Len(line)]}

\* C29: in the output of stitching no end point of a polyline coincides
\* with an end point of another polyline.
C29_Maximal ==
    StitchDone =>
        \A i, k \in 1..Len(ret.lines) :
            i # k => LineEnds(ret.lines[i]) \cap LineEnds(ret.lines[k]) = {}

\* C29 witness: two polylines from three segments, the first of two segments
C29_Witness ==
    /\ call = "connectContourSegments"
    /\ Len(args.segments) = 3
    /\ Len(ret.lines) = 2
    /\ Len(ret.lines[1]) = 3
    /\ ret.lines[1][1] # ret.lines[1][3]
    /\ ret.lines[2][1] # ret.lines[2][2]

(***************************************************************************)
(* PointRelaxation.relax (src/mitchell-sampling.js:67-110).  The size of   *)
(* a displacement (a sum of 0.01 / dist^2 forces) is not modelled: a point *)
(* that is moved goes to any neighbouring position, clamped to the bounds. *)
(* The specification SpecRelax draws the points, the number of edge points *)
(* among them and the iteration count; a step is one iteration.            *)
(***************************************************************************)
RelaxGridX == 2

RelaxGridY == 1

RelaxPoints == 3

MaxIterations == 2

RelaxGrid == {Pt(px, py) : px \in 0..RelaxGridX, py \in 0..RelaxGridY}

RelaxBounds == [minX |-> 0, maxX |-> RelaxGridX, minY |-> 0, maxY |-> RelaxGridY]

\* new Set(edgePoints.map(p => `${p.x},${p.y}`))
EdgeSetOf(edgePoints) == {<<edgePoints[i].x, edgePoints[i].y>> : i \in 1..Len(edgePoints)}

NothingFixed(edgeSet, p) == FALSE

\* edgeSet.has(`${points[i].x},${points[i].y}`)
IsFixed(edgeSet, p) == <<p.x, p.y>> \in edgeSet

\* Math.max(min, Math.min(max, v))
Clamp(min, max, v) == Max2(min, Min2(max, v))

\* the positions a point can have after one iteration: a fixed point and a
\* point all others coincide with (every pair skipped, force 0) stay
RelaxedPositions(points, i, edgeSet, bounds) ==
    IF IsFixed(edgeSet, points[i]) \/ \A j \in 1..Len(points) : points[j] = points[i]
    THEN {points[i]}
    ELSE {Pt(Clamp(bounds.minX, bounds.maxX, points[i].x + fx),
             Clamp(bounds.minY, bounds.maxY, points[i].y + fy)) :
            fx \in {-1, 0, 1}, fy \in {-1, 0, 1}}

\* the arrays one iteration can leave: the forces are computed from the
\* positions before the iteration, then applied point by point
RelaxedArrays(points, edgeSet, bounds) ==
    LET RECURSIVE Upto(_)
        Upto(n) == IF n = 0 THEN {<<>>}
                   ELSE {Append(s, q) : s \in Upto(n - 1),
                                        q \in RelaxedPositions(points, n, edgeSet, bounds)}
    IN Upto(Len(points))

InitRelax ==
    /\ Constructed
    /\ contourInterval = 100
    /\ call = "none"
    /\ \E points \in [1..RelaxPoints -> RelaxGrid], numBoundaryPoints \in 0..RelaxPoints,
          iterations \in 1..MaxIterations :
          /\ args = [points |-> points,
                     edgePoints |-> SubSeq(points, 1, numBoundaryPoints),
                     bounds |-> RelaxBounds, iterations |-> iterations]
          /\ ret = [points |-> points, iter |-> 0]

\* one round of the for (iter) loop
RelaxIteration ==
    /\ ret.iter < args.iterations
    /\ call' = "relax"
    /\ \E moved \in RelaxedArrays(ret.points, EdgeSetOf(args.edgePoints), args.bounds) :
          ret' = [points |-> moved, iter |-> ret.iter + 1]
    /\ UNCHANGED args
    /\ UNCHANGED appVars

NextRelax == RelaxIteration

SpecRelax == InitRelax /\ [][NextRelax]_vars

\* C24: relax keeps the number of points, and every point whose coordinates
\* are those of a member of edgePoints when the call starts has them when
\* the call returns (and after every iteration).
C24_FixedSubsetUnmoved ==
    /\ Len(ret.points) = Len(args.points)
    /\ \A i \in 1..Len(args.points) :
          (\E k \in 1..Len(args.edgePoints) : args.edgePoints[k] = args.points[i])
              => ret.points[i] = args.points[i]

\* C24 witness: a returned call in which an interior point at the
\* coordinates of an edge point stayed and another point moved
C24_Witness ==
    /\ call = "relax"
    /\ ret.iter = args.iterations
    /\ Len(args.edgePoints) = 1
    /\ args.points[2] = args.points[1]
    /\ ret.points[2] = args.points[2]
    /\ ret.points[3] # args.points[3]

(***************************************************************************)
(* Conrec.contour (src/conrec.js:20-171) on a grid of elevations.  The     *)
(* specification SpecConrec draws the elevations of the four corners of a  *)
(* cell and a list of levels.                                              *)
(***************************************************************************)
CellSize == 12

MaxCorner == 2

\* Conrec.interpolate; the divisions are exact on the values drawn
conrecInterpolate(x1, x2, z1, z2, z) ==
    IF z2 = z1 THEN ExactDiv(x1 + x2, 2)
    ELSE x1 + ExactDiv((z - z1) * (x2 - x1), z2 - z1)

castab ==
    << <<0, 0, 8>>, <<0, 2, 5>>, <<7, 6, 9>>,
       <<0, 3, 4>>, <<1, 3, 1>>, <<4, 3, 0>>,
       <<9, 6, 7>>, <<5, 2, 0>>, <<8, 0, 0>> >>

\* castab[row][col], indices from 0; undefined (here 0) outside a row
CasTab(row, col) == IF col + 1 <= Len(castab[row + 1]) THEN castab[row + 1][col + 1] ELSE 0

\* twice the m2 of the corner loop: m1 = 4, 2, 1, 0.5 for the corners
\* (i, j), (i+1, j), (i+1, j+1), (i, j+1)
CornerCode2(sh, h) ==
    (IF sh[1] > h THEN 8 ELSE 0) + (IF sh[2] > h THEN 4 ELSE 0)
    + (IF sh[3] > h THEN 2 ELSE 0) + (IF sh[4] > h THEN 1 ELSE 0)

\* the segments the for (m1) loop pushes for one cell and level; sh, xh, yh
\* are the corners in the order of the code, m1, m2, m3 count from 0
CellSegments(sh, xh, yh, h) ==
    FlattenSeq([n \in 1..4 |->
        LET m1 == n - 1
            m2 == (m1 + 1) % 4
            m3 == (m1 + 2) % 4
            case_value == CasTab(m2, m1)
            V(m) == Pt(xh[m + 1], yh[m + 1])
            I(a, b) == Pt(conrecInterpolate(xh[a + 1], xh[b + 1], sh[a + 1], sh[b + 1], h),
                          conrecInterpolate(yh[a + 1], yh[b + 1], sh[a + 1], sh[b + 1], h))
            Seg(a, b) == <<[start |-> a, end |-> b]>>
        IN CASE case_value = 1 -> Seg(V(m1), V(m2))
             [] case_value = 2 -> Seg(V(m2), V(m1))
             [] case_value = 3 -> Seg(V(m3), V(m1))
             [] case_value = 4 -> Seg(V(m1), V(m3))
             [] case_value = 5 -> Seg(V(m1), I(m2, m3))
             [] case_value = 6 -> Seg(I(m1, m2), V(m3))
             [] case_value = 7 -> Seg(I(m1, m2), I(m2, m3))
             [] case_value = 8 -> Seg(I(m2, m3), I(m1, m2))
             [] case_value = 9 -> Seg(I(m1, m2), V(m1))
             [] OTHER -> <<>>])

\* contour(d, x, y, z): for every level of z, in order, the segments of all
\* cells, rows from the last to the first (d, x, y indexed from 1)
conrecContour(d, x, y, z) ==
    [k \in 1..Len(z) |->
       [level |-> z[k],
        segments |->
          FlattenSeq([jj \in 1..(Len(y) - 1) |->
            FlattenSeq([i \in 1..(Len(x) - 1) |->
              LET j == Len(y) - jj
                  sh == <<d[i][j], d[i + 1][j], d[i + 1][j + 1], d[i][j + 1]>>
                  xh == <<x[i], x[i + 1], x[i + 1], x[i]>>
                  yh == <<y[j], y[j], y[j + 1], y[j + 1]>>
                  dmin == SeqMin(sh)
                  dmax == SeqMax(sh)
              IN IF dmax < z[1] \/ dmin > z[Len(z)] THEN <<>>
                 ELSE IF z[k] < dmin \/ z[k] > dmax THEN <<>>
                 ELSE IF CornerCode2(sh, z[k]) = 0 \/ CornerCode2(sh, z[k]) = 30 THEN <<>>
                 ELSE CellSegments(sh, xh, yh, z[k])])])]]

\* ascending lists of levels
LevelLists ==
    {z \in UNION {[1..n -> 0..MaxCorner] : n \in 1..(MaxCorner + 1)} :
        \A i \in 1..(Len(z) - 1) : z[i] < z[i + 1]}

InitConrec ==
    /\ Constructed
    /\ contourInterval = 1
    /\ call = "none"
    /\ ret = Null
    /\ \E d \in [1..2 -> [1..2 -> 0..MaxCorner]], z \in LevelLists :
          args = [d |-> d, x |-> <<0, CellSize>>, y |-> <<0, CellSize>>, z |-> z]

ContourCall ==
    /\ call = "none"
    /\ call' = "contour"
    /\ ret' = conrecContour(args.d, args.x, args.y, args.z)
    /\ UNCHANGED args
    /\ UNCHANGED appVars

NextConrec == ContourCall

SpecConrec == InitConrec /\ [][NextConrec]_vars

\* the corners of the one cell drawn, with their elevations
CellCorners ==
    {[x |-> args.x[i], y |-> args.y[j], z |-> args.d[i][j]] : i \in 1..2, j \in 1..2}

\* p lies on the cell edge from corner a to corner b, and h is between the
\* elevations of a and b
OnBracketingEdge(p, a, b, h) ==
    /\ (a.x = b.x) # (a.y = b.y)
    /\ Min2(a.z, b.z) <= h /\ h <= Max2(a.z, b.z)
    /\ Min2(a.x, b.x) <= p.x /\ p.x <= Max2(a.x, b.x)
    /\ Min2(a.y, b.y) <= p.y /\ p.y <= Max2(a.y, b.y)

\* C25: every endpoint of a segment contour emits for the cell and level h
\* is a corner of elevation h or lies on a cell edge whose end elevations
\* bracket h; a cell with no corner above h emits nothing.
C25_EndpointsOnCell ==
    call = "contour" =>
        \A k \in 1..Len(ret) :
            /\ (\A c \in CellCorners : c.z <= ret[k].level) => ret[k].segments = <<>>
            /\ \A n \in 1..Len(ret[k].segments) :
                  \A p \in {ret[k].segments[n].start, ret[k].segments[n].end} :
                      \/ \E c \in CellCorners :
                            c.z = ret[k].level /\ Pt(c.x, c.y) = p
                      \/ \E a \in CellCorners, b \in CellCorners :
                            OnBracketingEdge(p, a, b, ret[k].level)

(***************************************************************************)
(* The contours on display as a function of the generated contours and     *)
(* the simplify slider.                                                    *)
(***************************************************************************)
\* C26: in every state reached by contour generations, clearContours and
\* simplify-slider events, if currentContours is not null then
\* originalContours is not null and currentContours equals the count-based
\* simplification of originalContours, ranked by effective area, at the
\* value K the slider holds: it is a function of originalContours and K,
\* whatever values the slider held before.
C26_CurrentIsSimplifiedOriginal ==
    currentContours # NullRef
        => /\ originalContours # NullRef
           /\ Current = simplifiedByCount(Original,
                            calculateSimplificationRanking(Original), sliderValue)

\* the slider at a K of 1 or more that is below its maximum, and contours on
\* display that differ from the generated ones
C26_Witness ==
    /\ originalContours # NullRef
    /\ currentContours # NullRef
    /\ sliderValue >= 1
    /\ sliderValue < sliderMax
    /\ Current # JsonCopy(Original)

(***************************************************************************)
(* The removal ranking and the contours it was computed from.              *)
(***************************************************************************)
\* the interior points of every polyline of a contour map, each as
\* <<level, lineIndex, pointIndex>>
InteriorPoints(c) ==
    UNION {UNION {{<<c[i].level, k, q>> : q \in 2..(Len(c[i].lines[k]) - 1)} :
                     k \in 1..Len(c[i].lines)} : i \in 1..Len(c)}

\* C27: whenever originalContours is not null, simplificationPointRanking
\* is sorted ascending by area, each of its entries addresses an interior
\* point of a polyline of originalContours and holds that point and the
\* area of the triangle it forms with its two neighbours, and every
\* interior point of every polyline has exactly one entry.
C27_RankingMatchesOriginal ==
    originalContours # NullRef
        => LET r == simplificationPointRanking
               Key(e) == <<e.level, e.lineIndex, e.pointIndex>>
           IN /\ \A a \in 1..(Len(r) - 1) : r[a].area <= r[a + 1].area
              /\ \A a \in 1..Len(r) :
                    /\ Key(r[a]) \in InteriorPoints(Original)
                    /\ LET line == LinesAt(Original, r[a].level)[r[a].lineIndex]
                           q == r[a].pointIndex
                       IN /\ r[a].point = line[q]
                          /\ r[a].area = triangleArea2(line[q - 1], line[q], line[q + 1])
              /\ \A p \in InteriorPoints(Original) :
                    Cardinality({a \in 1..Len(r) : Key(r[a]) = p}) = 1

\* generated contours whose ranking holds entries of two levels and of two
\* different areas
C27_Witness ==
    /\ originalContours # NullRef
    /\ generatedFrom # Null
    /\ \E a, b \in 1..Len(simplificationPointRanking) :
          /\ simplificationPointRanking[a].level # simplificationPointRanking[b].level
          /\ simplificationPointRanking[a].area < simplificationPointRanking[b].area

(***************************************************************************)
(* The count-based simplification as a function of the removal count.      *)
(***************************************************************************)
\* a polyline without the points at the indices of S
WithoutIndices(line, S) == FilterIdx(line, LAMBDA idx : idx \notin S)

\* C28: whenever contours are on display, the slider being at K, every
\* polyline of originalContours is on display without a set S of its
\* interior points, each addressed by one of the first K entries of the
\* ranking, so with its two end points; and the count-based simplification
\* at K + 1 returns it without a set of interior points that includes S.
C28_MonotoneInCount ==
    (originalContours # NullRef /\ currentContours # NullRef)
        => LET K == sliderValue
               r == simplificationPointRanking
               atNext == simplifiedByCount(Original, r, K + 1)
               SameLines(c) ==
                   /\ Len(c) = Len(Original)
                   /\ \A i \in 1..Len(c) :
                         /\ c[i].level = Original[i].level
                         /\ Len(c[i].lines) = Len(Original[i].lines)
               FirstK(level, k) ==
                   {r[a].pointIndex : a \in {b \in 1..Min2(K, Len(r)) :
                        r[b].level = level /\ r[b].lineIndex = k}}
           IN /\ SameLines(Current)
              /\ SameLines(atNext)
              /\ \A i \in 1..Len(Original) : \A k \in 1..Len(Original[i].lines) :
                    LET line == Original[i].lines[k]
                        interior == 2..(Len(line) - 1)
                    IN \E S \in SUBSET (FirstK(Original[i].level, k) \cap interior) :
                         /\ Current[i].lines[k] = WithoutIndices(line, S)
                         /\ \E T \in SUBSET interior :
                               /\ S \subseteq T
                               /\ atNext[i].lines[k] = WithoutIndices(line, T)

\* the slider at a K of 1 or more, a vertex gone, and the simplification at
\* K + 1 removing one more
C28_Witness ==
    /\ originalContours # NullRef
    /\ currentContours # NullRef
    /\ sliderValue >= 1
    /\ TotalPoints(Current) < TotalPoints(Original)
    /\ TotalPoints(simplifiedByCount(Original, simplificationPointRanking,
                                     sliderValue + 1)) < TotalPoints(Current)

(***************************************************************************)
(* The level loop of generateContourLinesFromTriangles                     *)
(* (src/app.js:653-658) and generateContourLines (src/app.js:997-1002),    *)
(* one iteration at a time, for the intervals parseFloat can return from   *)
(* the interval field: positive, zero and negative.  call is "levelLoop"   *)
(* while the loop runs and "levels" once its test has failed.  The guard   *)
(* of an iteration is the test of the loop and nothing else.               *)
(***************************************************************************)
LoopBound == 3

LoopInterval == 2

\* the list levels is recorded up to this length; a terminating loop of the
\* specification pushes at most 2 * LoopBound + 1 levels
MaxLevels == 2 * LoopBound + 4

\* a double that keeps falling stops changing once the step is below its
\* precision (level + interval = level); the specification puts that
\* point at -LevelFloor, below every elevation
LevelFloor == 4 * LoopBound

\* Math.ceil(minElev / interval) * interval; NaN for interval 0, where
\* minElev / 0 is an infinity or NaN and its product with 0 is NaN
StartLevel(minElev, interval) ==
    IF interval = 0 THEN [nan |-> TRUE, value |-> 0]
    ELSE [nan |-> FALSE,
          value |-> (IF interval > 0 THEN CeilDiv(minElev, interval)
                     ELSE CeilDiv(-minElev, -interval)) * interval]

\* the loop test "level <= maxElev", false for NaN
LoopTest(level, maxElev) == ~level.nan /\ level.value <= maxElev

InitLoop ==
    /\ Constructed
    /\ contourInterval = Null
    /\ call = "levelLoop"
    /\ \E minElev \in (-LoopBound)..LoopBound :
       \E maxElev \in minElev..LoopBound :
       \E interval \in (-LoopInterval)..LoopInterval :
          /\ args = [minElev |-> minElev, maxElev |-> maxElev, interval |-> interval]
          /\ ret = [level |-> StartLevel(minElev, interval), levels |-> <<>>,
                    odd |-> FALSE]

\* one iteration: levels.push(level); level += interval.  odd tells whether
\* the number of iterations made so far is odd.
LoopPush ==
    /\ call = "levelLoop"
    /\ LoopTest(ret.level, args.maxElev)
    /\ ret' = [level |-> [nan |-> FALSE,
                          value |-> Max2(ret.level.value + args.interval,
                                         -LevelFloor)],
               levels |-> IF Len(ret.levels) < MaxLevels
                          THEN Append(ret.levels, ret.level.value)
                          ELSE ret.levels,
               odd |-> ~ret.odd]
    /\ UNCHANGED <<call, args, appVars>>

\* the test fails: the loop is left with the list levels
LoopExit ==
    /\ call = "levelLoop"
    /\ ~LoopTest(ret.level, args.maxElev)
    /\ call' = "levels"
    /\ UNCHANGED <<args, ret, appVars>>

NextLoop == LoopPush \/ LoopExit

\* the loop runs on as long as it can
SpecLoop == InitLoop /\ [][NextLoop]_vars /\ WF_vars(NextLoop)

\* C30: the level loop is left after finitely many iterations, for every
\* interval: positive, zero or negative.
C30_LevelLoopTerminates == <>(call = "levels")

====
